---------------------------- MODULE Spec2Model ----------------------------
(***************************************************************************)
(* A model of merge-jwl: the cleaner (src/src/cleaner.rs) and the merge    *)
(* engine (src/src/merger.rs) over the in-memory Database of               *)
(* src/src/database.rs.                                                    *)
(*                                                                         *)
(* Option<T> is a sequence of length 0 (None) or 1 (Some).  A Vec is a     *)
(* sequence, a HashMap a function with a finite domain, a HashSet a set.   *)
(* A String that the code parses (a GUID, an RFC3339 timestamp) is kept in *)
(* a form the parser is computed from, so that two different strings can   *)
(* parse to the same value.                                                *)
(***************************************************************************)
EXTENDS Integers, Sequences, FiniteSets, TLC

VARIABLES
    pc,         \* position of the driver (merge_databases, or a unit run)
    originals,  \* the iterator `originals`: the inputs not yet consumed
    inputs,     \* history: the inputs as they were handed to the driver
    m,          \* the Merge struct: src, dst, messages, the translations
    loc,        \* locals of the loop that is being stepped row by row
    cl          \* the cleaner's run: the database, the counts returned

vars == <<pc, originals, inputs, m, loc, cl>>

----------------------------------------------------------------------------
(* Option, Vec, HashMap helpers *)

None == <<>>

Some(x) == <<x>>

IsSome(o) == o # <<>>

Range(s) == {s[i] : i \in DOMAIN s}

\* Iterator::max().unwrap_or(0) over a set of u32
MaxOr0(S) == IF S = {} THEN 0 ELSE CHOOSE x \in S : \A y \in S : y <= x

\* HashMap::insert
MapInsert(f, k, v) == [x \in DOMAIN f \cup {k} |-> IF x = k THEN v ELSE f[x]]

\* HashMap::remove
MapRemove(f, k) == [x \in DOMAIN f \ {k} |-> f[x]]

EmptyMap == [x \in {} |-> 0]

\* iter().map(|r| (k, v)).collect::<HashMap>() over a sequence of <<k, v>>:
\* a later pair overrides an earlier pair with the same key
Collect(pairs) ==
    [k \in {pairs[i][1] : i \in DOMAIN pairs} |->
        pairs[CHOOSE i \in DOMAIN pairs :
                /\ pairs[i][1] = k
                /\ \A j \in DOMAIN pairs : pairs[j][1] = k => j <= i][2]]

\* the sort left out: the slots in the order of the destination Bookmarks
SortU32_unsorted(s) == s

\* Vec<u32>::sort
SortU32(s) ==
    LET before(i) == {j \in DOMAIN s : s[j] < s[i] \/ (s[j] = s[i] /\ j < i)}
    IN  [k \in 1..Len(s) |->
            s[CHOOSE i \in DOMAIN s : Cardinality(before(i)) = k - 1]]

Reverse(s) == [i \in 1..Len(s) |-> s[Len(s) + 1 - i]]

----------------------------------------------------------------------------
(* database.rs: the rows *)

Location(id, v, title) ==
    [location_id |-> id,
     book_number |-> v.book_number, chapter_number |-> v.chapter_number,
     document_id |-> v.document_id, track |-> v.track,
     issue_tag_number |-> v.issue_tag_number, key_symbol |-> v.key_symbol,
     meps_language |-> v.meps_language, type |-> v.type,
     title |-> title]

Bookmark(id, l, p, slot, title) ==
    [bookmark_id |-> id, location_id |-> l, publication_location_id |-> p,
     slot |-> slot, title |-> title, snippet |-> Some("bar"),
     block_type |-> 1, block_identifier |-> Some(18)]

UserMark(id, l, guid, color) ==
    [user_mark_id |-> id, color_index |-> color, location_id |-> l,
     style_index |-> 0, user_mark_guid |-> guid, version |-> 1]

Note(id, guid, um, l, title, content, last_modified) ==
    [note_id |-> id, guid |-> guid, user_mark_id |-> um, location_id |-> l,
     title |-> title, content |-> content, last_modified |-> last_modified,
     block_type |-> 0, block_identifier |-> None]

BlockRange(id, start, end, um) ==
    [block_range_id |-> id, block_type |-> 1, identifier |-> 1,
     start_token |-> start, end_token |-> end, user_mark_id |-> um]

Tag(id, type, name) ==
    [tag_id |-> id, type |-> type, name |-> name, image_filename |-> None]

TagMap(id, pl, l, n, tag, position) ==
    [tag_map_id |-> id, playlist_item_id |-> pl, location_id |-> l,
     note_id |-> n, tag_id |-> tag, position |-> position]

InputField(l, tag, value) ==
    [location_id |-> l, text_tag |-> tag, value |-> value]

\* Database::default()
EmptyDatabase ==
    [schema_sql |-> <<>>, last_modified |-> "",
     locations |-> <<>>, notes |-> <<>>, input_fields |-> <<>>,
     tags |-> <<>>, tag_maps |-> <<>>, block_ranges |-> <<>>,
     bookmarks |-> <<>>, user_marks |-> <<>>]

----------------------------------------------------------------------------
(* merger.rs: LocationValue and the location interner *)

LocationValue(l) ==
    [book_number |-> l.book_number, chapter_number |-> l.chapter_number,
     document_id |-> l.document_id, track |-> l.track,
     issue_tag_number |-> l.issue_tag_number, key_symbol |-> l.key_symbol,
     meps_language |-> l.meps_language, type |-> l.type]

\* Merge::new with the value index never filled
NewLocationMerge_no_index(src, dst) ==
    [location_translate |-> EmptyMap,
     src_location_index |->
        Collect([i \in DOMAIN src.locations |->
                    <<src.locations[i].location_id, src.locations[i]>>]),
     dst_location_value_index |-> EmptyMap,
     location_max_id |-> MaxOr0({l.location_id : l \in Range(dst.locations)})]

\* Merge::new: the LocationMerge built from the source and the destination
NewLocationMerge(src, dst) ==
    [location_translate |-> EmptyMap,
     src_location_index |->
        Collect([i \in DOMAIN src.locations |->
                    <<src.locations[i].location_id, src.locations[i]>>]),
     dst_location_value_index |->
        Collect([i \in DOMAIN dst.locations |->
                    <<LocationValue(dst.locations[i]),
                      dst.locations[i].location_id>>]),
     location_max_id |-> MaxOr0({l.location_id : l \in Range(dst.locations)})]

\* insert_location with a slip: for a Location that has an equivalent in the
\* destination, the source row-id is returned instead of the equivalent's
insert_location_src_id(lm, dst, location_id) ==
    IF location_id \in DOMAIN lm.location_translate
    THEN [ok |-> TRUE, id |-> lm.location_translate[location_id][1],
          location |-> lm, locations |-> dst]
    ELSE IF location_id \notin DOMAIN lm.src_location_index
    THEN [ok |-> FALSE, id |-> 0, location |-> lm, locations |-> dst]
    ELSE
      LET location == lm.src_location_index[location_id]
          value == LocationValue(location)
          rest == MapRemove(lm.src_location_index, location_id)
      IN  IF value \in DOMAIN lm.dst_location_value_index
          THEN [ok |-> TRUE, id |-> location_id,
                location |-> [lm EXCEPT
                    !.src_location_index = rest,
                    !.location_translate =
                        MapInsert(@, location_id, <<location_id, value>>)],
                locations |-> dst]
          ELSE LET new_id == lm.location_max_id + 1
               IN  [ok |-> TRUE, id |-> new_id,
                    location |-> [lm EXCEPT
                        !.src_location_index = rest,
                        !.location_max_id = new_id,
                        !.location_translate =
                            MapInsert(@, location_id, <<new_id, value>>)],
                    locations |->
                        Append(dst, [location EXCEPT !.location_id = new_id])]

\* insert_location that never looks a value up in dst_location_value_index
insert_location_push_always(lm, dst, location_id) ==
    IF location_id \in DOMAIN lm.location_translate
    THEN [ok |-> TRUE, id |-> lm.location_translate[location_id][1],
          location |-> lm, locations |-> dst]
    ELSE IF location_id \notin DOMAIN lm.src_location_index
    THEN [ok |-> FALSE, id |-> 0, location |-> lm, locations |-> dst]
    ELSE
      LET location == lm.src_location_index[location_id]
          new_id == lm.location_max_id + 1
      IN  [ok |-> TRUE, id |-> new_id,
           location |-> [lm EXCEPT
                !.src_location_index = MapRemove(@, location_id),
                !.location_max_id = new_id,
                !.location_translate =
                    MapInsert(@, location_id,
                              <<new_id, LocationValue(location)>>)],
           locations |-> Append(dst, [location EXCEPT !.location_id = new_id])]

\* LocationMerge::insert_location.  ok = FALSE is the panic of
\* expect("Foreign key LocationId violated").
insert_location(lm, dst, location_id) ==
    IF location_id \in DOMAIN lm.location_translate
    THEN [ok |-> TRUE, id |-> lm.location_translate[location_id][1],
          location |-> lm, locations |-> dst]
    ELSE IF location_id \notin DOMAIN lm.src_location_index
    THEN [ok |-> FALSE, id |-> 0, location |-> lm, locations |-> dst]
    ELSE
      LET location == lm.src_location_index[location_id]
          value == LocationValue(location)
          rest == MapRemove(lm.src_location_index, location_id)
      IN  IF value \in DOMAIN lm.dst_location_value_index
          THEN LET equivalent == lm.dst_location_value_index[value]
               IN  [ok |-> TRUE, id |-> equivalent,
                    location |-> [lm EXCEPT
                        !.src_location_index = rest,
                        !.location_translate =
                            MapInsert(@, location_id, <<equivalent, value>>)],
                    locations |-> dst]
          ELSE LET new_id == lm.location_max_id + 1
               IN  [ok |-> TRUE, id |-> new_id,
                    location |-> [lm EXCEPT
                        !.src_location_index = rest,
                        !.location_max_id = new_id,
                        !.location_translate =
                            MapInsert(@, location_id, <<new_id, value>>)],
                    locations |->
                        Append(dst, [location EXCEPT !.location_id = new_id])]

\* Merge::new.  src.locations.drain(..) leaves the source without Locations.
MergeNew(src, dst, messages) ==
    [src |-> [src EXCEPT !.locations = <<>>],
     dst |-> dst,
     messages |-> messages,
     user_mark_translate |-> EmptyMap,
     note_translate |-> EmptyMap,
     tag_translate |-> EmptyMap,
     location |-> NewLocationMerge(src, dst),
     err |-> "none"]

\* a panic (expect, assert!, panic!) or an Err returned with `?`
Panic(st) == [st EXCEPT !.err = "panic"]

Fail(st, kind) == [st EXCEPT !.err = kind]

\* self.location.insert_location(&mut self.dst.locations, id) applied to st
Interned(st, r) ==
    [st EXCEPT !.location = r.location, !.dst.locations = r.locations]

----------------------------------------------------------------------------
(* merger.rs: parse_guid *)

\* char::to_digit(16)
HexVal(c) ==
    CASE c = "0" -> 0 [] c = "1" -> 1 [] c = "2" -> 2 [] c = "3" -> 3
      [] c = "4" -> 4 [] c = "5" -> 5 [] c = "6" -> 6 [] c = "7" -> 7
      [] c = "8" -> 8 [] c = "9" -> 9
      [] c = "a" -> 10 [] c = "b" -> 11 [] c = "c" -> 12
      [] c = "d" -> 13 [] c = "e" -> 14 [] c = "f" -> 15
      [] c = "A" -> 10 [] c = "B" -> 11 [] c = "C" -> 12
      [] c = "D" -> 13 [] c = "E" -> 14 [] c = "F" -> 15
      [] OTHER -> -1

\* uN::from_str_radix(s, 16) for a group of `width` characters: an optional
\* leading "+" is a sign, every other character must be a hex digit.  The value
\* is kept as its `width` hexadecimal digits, high to low.
from_str_radix(s, width) ==
    LET digits == IF s # <<>> /\ s[1] = "+" THEN Tail(s) ELSE s
    IN  IF digits = <<>> \/ \E i \in DOMAIN digits : HexVal(digits[i]) = -1
        THEN [ok |-> FALSE, value |-> <<>>]
        ELSE [ok |-> TRUE,
              value |-> [i \in 1..(width - Len(digits)) |-> 0]
                        \o [i \in DOMAIN digits |-> HexVal(digits[i])]]

\* `x as u128`: a value of fewer hexadecimal digits, zero-extended to 32
AsU128(v) == [i \in 1..(32 - Len(v)) |-> 0] \o v

\* `x << bits` on a u128, bits a multiple of 4: the digits that leave the top
\* are lost
Shl(v, bits) ==
    SubSeq(v, (bits \div 4) + 1, 32) \o [i \in 1..(bits \div 4) |-> 0]

\* `x | y` on one hexadecimal digit
DigitOr(x, y) ==
    IF x = 0 THEN y ELSE IF y = 0 THEN x
    ELSE   (IF x % 2 = 1 \/ y % 2 = 1 THEN 1 ELSE 0)
         + (IF (x \div 2) % 2 = 1 \/ (y \div 2) % 2 = 1 THEN 2 ELSE 0)
         + (IF (x \div 4) % 2 = 1 \/ (y \div 4) % 2 = 1 THEN 4 ELSE 0)
         + (IF x \div 8 = 1 \/ y \div 8 = 1 THEN 8 ELSE 0)

\* `a | b` on u128, digit by digit
BitOr(a, b) == <<DigitOr(a[1], b[1]), DigitOr(a[2], b[2]), DigitOr(a[3], b[3]),
    DigitOr(a[4], b[4]), DigitOr(a[5], b[5]), DigitOr(a[6], b[6]),
    DigitOr(a[7], b[7]), DigitOr(a[8], b[8]), DigitOr(a[9], b[9]),
    DigitOr(a[10], b[10]), DigitOr(a[11], b[11]), DigitOr(a[12], b[12]),
    DigitOr(a[13], b[13]), DigitOr(a[14], b[14]), DigitOr(a[15], b[15]),
    DigitOr(a[16], b[16]), DigitOr(a[17], b[17]), DigitOr(a[18], b[18]),
    DigitOr(a[19], b[19]), DigitOr(a[20], b[20]), DigitOr(a[21], b[21]),
    DigitOr(a[22], b[22]), DigitOr(a[23], b[23]), DigitOr(a[24], b[24]),
    DigitOr(a[25], b[25]), DigitOr(a[26], b[26]), DigitOr(a[27], b[27]),
    DigitOr(a[28], b[28]), DigitOr(a[29], b[29]), DigitOr(a[30], b[30]),
    DigitOr(a[31], b[31]), DigitOr(a[32], b[32])>>

\* parse_guid with the shifts of mid and hi exchanged
parse_guid_mid_hi(input) ==
    IF Len(input) # 36 THEN [ok |-> FALSE, value |-> <<>>]
    ELSE IF \E i \in {9, 14, 19, 24} : input[i] # "-"
    THEN [ok |-> FALSE, value |-> <<>>]
    ELSE
      LET low == from_str_radix(SubSeq(input, 1, 8), 8)
          mid == from_str_radix(SubSeq(input, 10, 13), 4)
          hi == from_str_radix(SubSeq(input, 15, 18), 4)
          seq == from_str_radix(SubSeq(input, 20, 23), 4)
          node == from_str_radix(SubSeq(input, 25, 36), 32)
      IN  IF low.ok /\ mid.ok /\ hi.ok /\ seq.ok /\ node.ok
          THEN [ok |-> TRUE,
                value |->
                    BitOr(BitOr(BitOr(BitOr(node.value,
                        Shl(AsU128(seq.value), 48)),
                        Shl(AsU128(hi.value), 80)),
                        Shl(AsU128(mid.value), 64)),
                        Shl(AsU128(low.value), 96))]
          ELSE [ok |-> FALSE, value |-> <<>>]

\* parse_guid: the u128 is kept as its 32 hexadecimal digits, high to low.
\* input.len() counts bytes and every character here is one byte.
parse_guid(input) ==
    IF Len(input) # 36 THEN [ok |-> FALSE, value |-> <<>>]
    ELSE IF \E i \in {9, 14, 19, 24} : input[i] # "-"
    THEN [ok |-> FALSE, value |-> <<>>]
    ELSE
      LET low == from_str_radix(SubSeq(input, 1, 8), 8)
          mid == from_str_radix(SubSeq(input, 10, 13), 4)
          hi == from_str_radix(SubSeq(input, 15, 18), 4)
          seq == from_str_radix(SubSeq(input, 20, 23), 4)
          node == from_str_radix(SubSeq(input, 25, 36), 32)
      IN  IF low.ok /\ mid.ok /\ hi.ok /\ seq.ok /\ node.ok
          THEN [ok |-> TRUE,
                value |->
                    BitOr(BitOr(BitOr(BitOr(node.value,
                        Shl(AsU128(seq.value), 48)),
                        Shl(AsU128(hi.value), 64)),
                        Shl(AsU128(mid.value), 80)),
                        Shl(AsU128(low.value), 96))]
          ELSE [ok |-> FALSE, value |-> <<>>]

\* chrono::DateTime::parse_from_rfc3339 and the instant it denotes.  A
\* timestamp string is <<local hour, UTC offset in hours>>; anything else is not
\* RFC3339.  DateTime's ordering compares the instants, local - offset.
parse_from_rfc3339(s) ==
    IF Len(s) = 2 THEN [ok |-> TRUE, instant |-> s[1] - s[2]]
    ELSE [ok |-> FALSE, instant |-> 0]

----------------------------------------------------------------------------
(* merger.rs: Merge::merge_bookmarks *)

\* the sentinel chained to the slots in use
SlotSentinel == 10

\* the slots in use without the sentinel chained to them
SlotsInUse_no_sentinel(bookmarks, publication_location_id) ==
    LET same == SelectSeq(bookmarks,
                    LAMBDA b : b.publication_location_id = publication_location_id)
    IN  [i \in DOMAIN same |-> same[i].slot]

\* the slots of the destination Bookmarks of one publication, then the sentinel
SlotsInUse(bookmarks, publication_location_id) ==
    LET same == SelectSeq(bookmarks,
                    LAMBDA b : b.publication_location_id = publication_location_id)
    IN  [i \in DOMAIN same |-> same[i].slot] \o <<SlotSentinel>>

\* the first free slot taken to be the number of slots in use
FirstFreeSlot_count(sorted) ==
    IF Len(sorted) - 1 < SlotSentinel THEN Some(Len(sorted) - 1) ELSE None

\* enumerate().find(|(i, b)| b != i).map(|i| i.0) over the sorted slots
FirstFreeSlot(sorted) ==
    LET differ == {i \in DOMAIN sorted : sorted[i] # i - 1}
    IN  IF differ = {} THEN None
        ELSE Some((CHOOSE i \in differ : \A j \in differ : i <= j) - 1)

BookmarkOverflow(location, src) ==
    [kind |-> "BookmarkOverflow",
     key_symbol |-> location.key_symbol,
     issue_tag_number |-> location.issue_tag_number,
     title |-> src.title, snippet |-> src.snippet]

\* the body of the loop over src.bookmarks (lines 153-202) for one Bookmark,
\* max_id being the local before the row
BookmarkRow(st, max_id, b) ==
    LET r1 == insert_location(st.location, st.dst.locations, b.location_id)
        st1 == Interned(st, r1)
        r2 == insert_location(st1.location, st1.dst.locations,
                              b.publication_location_id)
        st2 == Interned(st1, r2)
        src == [b EXCEPT !.location_id = r1.id,
                         !.publication_location_id = r2.id,
                         !.bookmark_id = max_id + 1]
        slots == SlotsInUse(st2.dst.bookmarks, r2.id)
        free == FirstFreeSlot(SortU32(slots))
    IN  IF ~r1.ok THEN Panic(st)
        ELSE IF ~r2.ok THEN Panic(st1)
        ELSE IF src.slot \in Range(slots)
        THEN IF IsSome(free)
             THEN [st2 EXCEPT !.dst.bookmarks =
                                 Append(@, [src EXCEPT !.slot = free[1]])]
             ELSE [st2 EXCEPT !.messages = Append(@,
                     BookmarkOverflow(
                         st2.location.location_translate[
                             b.publication_location_id][2], src))]
        ELSE [st2 EXCEPT !.dst.bookmarks = Append(@, src)]

RECURSIVE BookmarkLoop(_, _, _)
BookmarkLoop(st, max_id, rows) ==
    IF rows = <<>> \/ st.err # "none" THEN st
    ELSE BookmarkLoop(BookmarkRow(st, max_id, Head(rows)), max_id + 1, Tail(rows))

BookmarkMaxId(st) == MaxOr0({b.bookmark_id : b \in Range(st.dst.bookmarks)})

merge_bookmarks(st) ==
    IF st.src.bookmarks = <<>> THEN st
    ELSE BookmarkLoop([st EXCEPT !.src.bookmarks = <<>>],
                      BookmarkMaxId(st), st.src.bookmarks)

----------------------------------------------------------------------------
(* merger.rs: Merge::merge_user_marks *)

\* the GUIDs of a sequence of rows all parse
AllParse(guids) == \A i \in DOMAIN guids : parse_guid(guids[i]).ok

\* guid_map keyed by the GUID of the first destination UserMark only
UserMarkGuidMap_first_only(user_marks) ==
    Collect([i \in DOMAIN user_marks \cap {1} |->
                <<parse_guid(user_marks[i].user_mark_guid).value,
                  user_marks[i].user_mark_id>>])

\* guid_map of merge_user_marks: parsed GUID -> user_mark_id
UserMarkGuidMap(user_marks) ==
    Collect([i \in DOMAIN user_marks |->
                <<parse_guid(user_marks[i].user_mark_guid).value,
                  user_marks[i].user_mark_id>>])

\* the body of the loop over src.user_marks (lines 225-243)
UserMarkRow(st, guid_map, max_id, u) ==
    LET g == parse_guid(u.user_mark_guid)
    IN  IF ~g.ok THEN Fail(st, "InvalidGuid")
        ELSE IF g.value \in DOMAIN guid_map
        THEN IF u.user_mark_id \in DOMAIN st.user_mark_translate
             THEN Panic([st EXCEPT !.user_mark_translate =
                            MapInsert(@, u.user_mark_id, guid_map[g.value])])
             ELSE [st EXCEPT !.user_mark_translate =
                            MapInsert(@, u.user_mark_id, guid_map[g.value])]
        ELSE
          LET r == insert_location(st.location, st.dst.locations, u.location_id)
              st1 == Interned(st, r)
              src == [u EXCEPT !.location_id = r.id,
                               !.user_mark_id = max_id + 1]
          IN  IF ~r.ok THEN Panic(st)
              ELSE [st1 EXCEPT
                      !.user_mark_translate =
                          MapInsert(@, u.user_mark_id, max_id + 1),
                      !.dst.user_marks = Append(@, src)]

\* user_mark_max_id after the row: incremented only when the row is inserted
UserMarkNextMax(guid_map, max_id, u) ==
    IF parse_guid(u.user_mark_guid).value \in DOMAIN guid_map
    THEN max_id ELSE max_id + 1

RECURSIVE UserMarkLoop(_, _, _, _)
UserMarkLoop(st, guid_map, max_id, rows) ==
    IF rows = <<>> \/ st.err # "none" THEN st
    ELSE UserMarkLoop(UserMarkRow(st, guid_map, max_id, Head(rows)), guid_map,
                      UserMarkNextMax(guid_map, max_id, Head(rows)), Tail(rows))

merge_user_marks(st) ==
    IF st.src.user_marks = <<>> THEN st
    ELSE IF ~AllParse([i \in DOMAIN st.dst.user_marks |->
                          st.dst.user_marks[i].user_mark_guid])
    THEN Fail(st, "InvalidGuid")
    ELSE UserMarkLoop([st EXCEPT !.src.user_marks = <<>>],
            UserMarkGuidMap(st.dst.user_marks),
            MaxOr0({u.user_mark_id : u \in Range(st.dst.user_marks)}),
            st.src.user_marks)

----------------------------------------------------------------------------
(* merger.rs: Merge::merge_notes *)

\* NoteText::from
NoteText(note) ==
    [title |-> note.title, content |-> note.content, date |-> note.last_modified]

NoteUpdate(before, after) ==
    [kind |-> "NoteUpdate", before |-> before, after |-> after]

\* guid_map of merge_notes: parsed GUID -> the destination Note (its index in
\* dst.notes, the model of the &mut Note)
NoteGuidMap(notes) ==
    Collect([i \in DOMAIN notes |-> <<parse_guid(notes[i].guid).value, i>>])

\* the comparison of the instants with <= in place of <
NoteMatched_or_equal(st, i, n) ==
    LET dst == st.dst.notes[i]
        src_time == parse_from_rfc3339(n.last_modified)
        dst_time == parse_from_rfc3339(dst.last_modified)
        newer == dst_time.instant <= src_time.instant
        updated == [dst EXCEPT !.title = n.title, !.content = n.content,
                               !.last_modified = n.last_modified]
        before == IF newer THEN NoteText(updated) ELSE NoteText(n)
        after == IF newer THEN NoteText(n) ELSE NoteText(dst)
        st1 == IF newer THEN [st EXCEPT !.dst.notes[i] = updated] ELSE st
        st2 == IF before # after
               THEN [st1 EXCEPT !.messages = Append(@, NoteUpdate(before, after))]
               ELSE st1
    IN  IF ~src_time.ok \/ ~dst_time.ok THEN Fail(st, "BadTimestamp")
        ELSE [st2 EXCEPT !.note_translate = MapInsert(@, n.note_id, dst.note_id)]

\* a newer source Note replacing the whole destination row but its row-id
NoteMatched_whole_row(st, i, n) ==
    LET dst == st.dst.notes[i]
        src_time == parse_from_rfc3339(n.last_modified)
        dst_time == parse_from_rfc3339(dst.last_modified)
        newer == dst_time.instant < src_time.instant
        updated == [n EXCEPT !.note_id = dst.note_id]
        before == IF newer THEN NoteText(updated) ELSE NoteText(n)
        after == IF newer THEN NoteText(n) ELSE NoteText(dst)
        st1 == IF newer THEN [st EXCEPT !.dst.notes[i] = updated] ELSE st
        st2 == IF before # after
               THEN [st1 EXCEPT !.messages = Append(@, NoteUpdate(before, after))]
               ELSE st1
    IN  IF ~src_time.ok \/ ~dst_time.ok THEN Fail(st, "BadTimestamp")
        ELSE [st2 EXCEPT !.note_translate = MapInsert(@, n.note_id, dst.note_id)]

\* lines 260-275: the source Note has the GUID of the destination Note at
\* index i
NoteMatched(st, i, n) ==
    LET dst == st.dst.notes[i]
        src_time == parse_from_rfc3339(n.last_modified)
        dst_time == parse_from_rfc3339(dst.last_modified)
        newer == dst_time.instant < src_time.instant
        updated == [dst EXCEPT !.title = n.title, !.content = n.content,
                               !.last_modified = n.last_modified]
        before == IF newer THEN NoteText(updated) ELSE NoteText(n)
        after == IF newer THEN NoteText(n) ELSE NoteText(dst)
        st1 == IF newer THEN [st EXCEPT !.dst.notes[i] = updated] ELSE st
        st2 == IF before # after
               THEN [st1 EXCEPT !.messages = Append(@, NoteUpdate(before, after))]
               ELSE st1
    IN  IF ~src_time.ok \/ ~dst_time.ok THEN Fail(st, "BadTimestamp")
        ELSE [st2 EXCEPT !.note_translate = MapInsert(@, n.note_id, dst.note_id)]

\* lines 277-296: the source Note is new; the result carries the row to push
\* onto new_notes
NoteInserted(st, max_note_id, n) ==
    LET new_id == max_note_id + 1
        st1 == [st EXCEPT !.note_translate = MapInsert(@, n.note_id, new_id)]
        um_ok == ~IsSome(n.user_mark_id)
                 \/ n.user_mark_id[1] \in DOMAIN st.user_mark_translate
        um == IF IsSome(n.user_mark_id) /\ um_ok
              THEN Some(st.user_mark_translate[n.user_mark_id[1]])
              ELSE n.user_mark_id
        r == IF IsSome(n.location_id)
             THEN insert_location(st1.location, st1.dst.locations,
                                  n.location_id[1])
             ELSE [ok |-> TRUE, id |-> 0, location |-> st1.location,
                   locations |-> st1.dst.locations]
        src == [n EXCEPT !.note_id = new_id, !.user_mark_id = um,
                         !.location_id =
                             IF IsSome(n.location_id) THEN Some(r.id) ELSE None]
    IN  IF ~um_ok THEN [st |-> Panic(st1), new |-> <<>>]
        ELSE IF ~r.ok THEN [st |-> Panic(st1), new |-> <<>>]
        ELSE [st |-> Interned(st1, r), new |-> <<src>>]

\* the body of the loop over src.notes (lines 258-297)
NoteRow(st, guid_map, max_note_id, n) ==
    LET g == parse_guid(n.guid)
    IN  IF ~g.ok THEN [st |-> Fail(st, "InvalidGuid"), new |-> <<>>]
        ELSE IF g.value \in DOMAIN guid_map
        THEN [st |-> NoteMatched(st, guid_map[g.value], n), new |-> <<>>]
        ELSE NoteInserted(st, max_note_id, n)

RECURSIVE NoteLoop(_, _, _, _, _)
NoteLoop(st, guid_map, max_note_id, new_notes, rows) ==
    IF st.err # "none" THEN st
    ELSE IF rows = <<>>
    THEN [st EXCEPT !.dst.notes = @ \o new_notes]
    ELSE LET r == NoteRow(st, guid_map, max_note_id, Head(rows))
         IN  NoteLoop(r.st, guid_map, max_note_id + Len(r.new),
                      new_notes \o r.new, Tail(rows))

merge_notes(st) ==
    IF st.src.notes = <<>> THEN st
    ELSE IF ~AllParse([i \in DOMAIN st.dst.notes |-> st.dst.notes[i].guid])
    THEN Fail(st, "InvalidGuid")
    ELSE NoteLoop([st EXCEPT !.src.notes = <<>>],
            NoteGuidMap(st.dst.notes),
            MaxOr0({n.note_id : n \in Range(st.dst.notes)}),
            <<>>, st.src.notes)

----------------------------------------------------------------------------
(* merger.rs: Merge::merge_block_ranges *)

\* the overlap test with only its first comparison on the last branch
block_ranges_overlap_one_sided(a, b) ==
    IF a.start_token = b.start_token /\ a.end_token = b.end_token THEN TRUE
    ELSE IF \/ a.start_token = None \/ a.end_token = None
            \/ b.start_token = None \/ b.end_token = None
    THEN FALSE
    ELSE b.start_token[1] < a.end_token[1]

block_ranges_overlap(a, b) ==
    IF a.start_token = b.start_token /\ a.end_token = b.end_token THEN TRUE
    ELSE IF \/ a.start_token = None \/ a.end_token = None
            \/ b.start_token = None \/ b.end_token = None
    THEN FALSE
    ELSE b.start_token[1] < a.end_token[1] /\ b.end_token[1] > a.start_token[1]

\* the body of the loop over src.block_ranges (lines 315-332); the result
\* carries group_by_user_mark and whether the range was pushed
BlockRangeRow(st, group, max_id, b) ==
    IF b.user_mark_id \notin DOMAIN st.user_mark_translate
    THEN [st |-> Panic(st), group |-> group, pushed |-> 0]
    ELSE
      LET user_mark_id == st.user_mark_translate[b.user_mark_id]
          existing == IF user_mark_id \in DOMAIN group
                      THEN group[user_mark_id] ELSE <<>>
      IN  IF \E i \in DOMAIN existing : block_ranges_overlap(existing[i], b)
          THEN [st |-> st, group |-> MapInsert(group, user_mark_id, existing),
                pushed |-> 0]
          ELSE [st |-> [st EXCEPT !.dst.block_ranges = Append(@,
                          [b EXCEPT !.block_range_id = max_id + 1,
                                    !.user_mark_id = user_mark_id])],
                group |-> MapInsert(group, user_mark_id, Append(existing, b)),
                pushed |-> 1]

RECURSIVE BlockRangeLoop(_, _, _, _)
BlockRangeLoop(st, group, max_id, rows) ==
    IF rows = <<>> \/ st.err # "none" THEN st
    ELSE LET r == BlockRangeRow(st, group, max_id, Head(rows))
         IN  BlockRangeLoop(r.st, r.group, max_id + r.pushed, Tail(rows))

merge_block_ranges(st) ==
    IF st.src.block_ranges = <<>> THEN st
    ELSE BlockRangeLoop([st EXCEPT !.src.block_ranges = <<>>], EmptyMap,
            MaxOr0({b.block_range_id : b \in Range(st.dst.block_ranges)}),
            st.src.block_ranges)

----------------------------------------------------------------------------
(* merger.rs: Merge::merge_tags *)

\* the index of merge_tags keyed by the name alone
TagIndex_by_name(tags) ==
    Collect([i \in DOMAIN tags |-> <<<<0, tags[i].name>>, tags[i].tag_id>>])

\* index of merge_tags over the destination Tags: (type, name) -> tag_id
TagIndex(tags) ==
    Collect([i \in DOMAIN tags |->
                <<<<tags[i].type, tags[i].name>>, tags[i].tag_id>>])

RECURSIVE TagLoop(_, _, _, _, _)
TagLoop(st, index, max_id, new_tags, rows) ==
    IF rows = <<>> THEN [st EXCEPT !.dst.tags = @ \o new_tags]
    ELSE
      LET src == Head(rows)
          key == <<src.type, src.name>>
      IN  IF key \in DOMAIN index
          THEN TagLoop([st EXCEPT !.tag_translate =
                            MapInsert(@, src.tag_id, index[key])],
                       index, max_id, new_tags, Tail(rows))
          ELSE TagLoop([st EXCEPT !.tag_translate =
                            MapInsert(@, src.tag_id, max_id + 1)],
                       index, max_id + 1,
                       Append(new_tags, [src EXCEPT !.tag_id = max_id + 1]),
                       Tail(rows))

merge_tags(st) ==
    IF st.src.tags = <<>> THEN st
    ELSE TagLoop([st EXCEPT !.src.tags = <<>>], TagIndex(st.dst.tags),
            MaxOr0({t.tag_id : t \in Range(st.dst.tags)}), <<>>, st.src.tags)

----------------------------------------------------------------------------
(* merger.rs: Merge::merge_tag_maps *)

\* sort_by_key(|t| t.position): stable
SortByPosition(s) ==
    LET before(i) == {j \in DOMAIN s :
                        \/ s[j].position < s[i].position
                        \/ (s[j].position = s[i].position /\ j < i)}
    IN  [k \in 1..Len(s) |->
            s[CHOOSE i \in DOMAIN s : Cardinality(before(i)) = k - 1]]

\* normalize_tag_map_positions with one counter for all Tags
normalize_tag_map_positions_one_counter(tag_maps) ==
    LET sorted == SortByPosition(tag_maps)
    IN  [i \in DOMAIN sorted |-> [sorted[i] EXCEPT !.position = i - 1]]

\* Merge::normalize_tag_map_positions
normalize_tag_map_positions(tag_maps) ==
    LET sorted == SortByPosition(tag_maps)
    IN  [i \in DOMAIN sorted |->
            [sorted[i] EXCEPT !.position =
                Cardinality({j \in 1..(i - 1) :
                                sorted[j].tag_id = sorted[i].tag_id})]]

\* insert_tag_map that leaves the TagMap the row-id it had in the source
insert_tag_map_keep_id(dst, max_id, src) ==
    [dst EXCEPT !.tag_maps = Append(@, src)]

\* insert_tag_map
insert_tag_map(dst, max_id, src) ==
    [dst EXCEPT !.tag_maps = Append(@, [src EXCEPT !.tag_map_id = max_id + 1])]

\* the body of the loop over src.tag_maps (lines 386-415); the result carries
\* whether a row-id was consumed
TagMapRow(st, location_index, note_index, max_id, t) ==
    IF t.tag_id \notin DOMAIN st.tag_translate
    THEN [st |-> Panic(st), pushed |-> 0]
    ELSE
      LET tag_id == st.tag_translate[t.tag_id]
          src == [t EXCEPT !.tag_id = tag_id]
      IN  IF IsSome(t.location_id)
          THEN LET r == insert_location(st.location, st.dst.locations,
                                        t.location_id[1])
                   st1 == Interned(st, r)
               IN  IF ~r.ok THEN [st |-> Panic(st), pushed |-> 0]
                   ELSE IF <<tag_id, r.id>> \notin location_index
                   THEN [st |-> [st1 EXCEPT !.dst = insert_tag_map(@, max_id,
                                    [src EXCEPT !.location_id = Some(r.id)])],
                         pushed |-> 1]
                   ELSE [st |-> st1, pushed |-> 0]
          ELSE IF IsSome(t.note_id)
          THEN IF t.note_id[1] \notin DOMAIN st.note_translate
               THEN [st |-> Panic(st), pushed |-> 0]
               ELSE LET note_id == st.note_translate[t.note_id[1]]
                    IN  IF <<tag_id, note_id>> \notin note_index
                        THEN [st |-> [st EXCEPT !.dst = insert_tag_map(@, max_id,
                                        [src EXCEPT !.note_id = Some(note_id)])],
                              pushed |-> 1]
                        ELSE [st |-> st, pushed |-> 0]
          ELSE IF IsSome(t.playlist_item_id)
          THEN [st |-> st, pushed |-> 0]
          ELSE [st |-> Panic(st), pushed |-> 0]

RECURSIVE TagMapLoop(_, _, _, _, _)
TagMapLoop(st, location_index, note_index, max_id, rows) ==
    IF st.err # "none" THEN st
    ELSE IF rows = <<>>
    THEN [st EXCEPT !.dst.tag_maps = normalize_tag_map_positions(@)]
    ELSE LET r == TagMapRow(st, location_index, note_index, max_id, Head(rows))
         IN  TagMapLoop(r.st, location_index, note_index, max_id + r.pushed,
                        Tail(rows))

merge_tag_maps(st) ==
    IF st.src.tag_maps = <<>> THEN st
    ELSE TagMapLoop([st EXCEPT !.src.tag_maps = <<>>],
            {<<t.tag_id, t.location_id[1]>> :
                t \in {x \in Range(st.dst.tag_maps) : IsSome(x.location_id)}},
            {<<t.tag_id, t.note_id[1]>> :
                t \in {x \in Range(st.dst.tag_maps) : IsSome(x.note_id)}},
            MaxOr0({t.tag_map_id : t \in Range(st.dst.tag_maps)}),
            st.src.tag_maps)

----------------------------------------------------------------------------
(* merger.rs: Merge::merge_input_field *)

\* merge_input_field that returns Ok(()) whatever the source holds
merge_input_field_ok(st) == st

merge_input_field(st) ==
    IF st.src.input_fields = <<>> THEN st
    ELSE Fail(st, "NotImplemented")

----------------------------------------------------------------------------
(* merger.rs: merge_databases *)

\* a result that starts as Database::default() and takes the rows of the
\* first input
MergeStart_from_default(first) ==
    [src |-> EmptyDatabase,
     dst |-> [first EXCEPT !.schema_sql = <<>>, !.last_modified = ""],
     messages |-> <<>>,
     user_mark_translate |-> EmptyMap, note_translate |-> EmptyMap,
     tag_translate |-> EmptyMap,
     location |-> NewLocationMerge(EmptyDatabase, first),
     err |-> "none"]

\* lines 14-15: the first input is the result, no message yet
MergeStart(first) ==
    [src |-> EmptyDatabase, dst |-> first, messages |-> <<>>,
     user_mark_translate |-> EmptyMap, note_translate |-> EmptyMap,
     tag_translate |-> EmptyMap,
     location |-> NewLocationMerge(EmptyDatabase, first),
     err |-> "none"]

----------------------------------------------------------------------------
(* cleaner.rs *)

\* the loop of clean_block_ranges over ranges.iter().rev(): `rows` is what is
\* left of the reversed sequence
RECURSIVE RetainLoop(_, _, _, _)
RetainLoop(rows, user_mark_ids, found, retained) ==
    IF rows = <<>> THEN retained
    ELSE LET range == Head(rows)
         IN  IF range.user_mark_id \notin user_mark_ids
             THEN RetainLoop(Tail(rows), user_mark_ids, found, retained)
             ELSE IF range.user_mark_id \notin found
             THEN RetainLoop(Tail(rows), user_mark_ids,
                             found \cup {range.user_mark_id},
                             Append(retained, range))
             ELSE RetainLoop(Tail(rows), user_mark_ids, found, retained)

\* clean_block_ranges iterating ranges.iter() rather than ranges.iter().rev()
clean_block_ranges_forward(c) ==
    LET ranges == c.database.block_ranges
        retained == RetainLoop(ranges,
                        {u.user_mark_id : u \in Range(c.database.user_marks)},
                        {}, <<>>)
    IN  IF ranges = <<>> THEN c
        ELSE [database |-> [c.database EXCEPT !.block_ranges = retained],
              rows_removed |-> c.rows_removed + (Len(ranges) - Len(retained))]

\* Cleaner::clean_block_ranges on [database, rows_removed]
clean_block_ranges(c) ==
    LET ranges == c.database.block_ranges
        retained == RetainLoop(Reverse(ranges),
                        {u.user_mark_id : u \in Range(c.database.user_marks)},
                        {}, <<>>)
    IN  IF ranges = <<>> THEN c
        ELSE [database |-> [c.database EXCEPT !.block_ranges = retained],
              rows_removed |-> c.rows_removed + (Len(ranges) - Len(retained))]

\* Cleaner::location_ids_in_use
location_ids_in_use(database) ==
    {b.location_id : b \in Range(database.bookmarks)}
    \cup {b.publication_location_id : b \in Range(database.bookmarks)}
    \cup {n.location_id[1] :
            n \in {x \in Range(database.notes) : IsSome(x.location_id)}}
    \cup {u.location_id : u \in Range(database.user_marks)}
    \cup {t.location_id[1] :
            t \in {x \in Range(database.tag_maps) : IsSome(x.location_id)}}

\* Cleaner::clean_locations on [database, rows_removed]
clean_locations(c) ==
    LET in_use == location_ids_in_use(c.database)
        locations == c.database.locations
        kept == SelectSeq(Reverse(locations),
                          LAMBDA l : l.location_id \in in_use)
    IN  [database |-> [c.database EXCEPT !.locations = kept],
         rows_removed |-> c.rows_removed + (Len(locations) - Len(kept))]

\* clean: the database as it is left, and the count returned
clean(database) ==
    clean_locations(clean_block_ranges(
        [database |-> database, rows_removed |-> 0]))

----------------------------------------------------------------------------
(* The inputs: bounded families of Databases *)

\* the number of Bookmarks of a source that is varied slot by slot
MaxBookmarks == 2

\* timestamps range over local hours 1..MaxTime and offsets 0..1
MaxTime == 2

\* tokens of a BlockRange range over 0..MaxToken
MaxToken == 2

\* GUID strings, as their 36 characters.  GuidAUpper is GuidA spelled with
\* upper-case hex digits: another string, the same 128-bit value.
GuidA ==
    <<"c", "8", "8", "a", "f", "9", "8", "9", "-", "d", "a", "7", "3", "-",
    "4", "7", "4", "5", "-", "b", "c", "c", "c", "-", "8", "4", "7", "6",
    "f", "9", "9", "5", "0", "a", "3", "c">>

GuidAUpper ==
    <<"C", "8", "8", "A", "F", "9", "8", "9", "-", "D", "A", "7", "3", "-",
    "4", "7", "4", "5", "-", "B", "C", "C", "C", "-", "8", "4", "7", "6",
    "F", "9", "9", "5", "0", "A", "3", "C">>

GuidB ==
    <<"0", "f", "3", "a", "1", "b", "2", "c", "-", "0", "0", "0", "0", "-",
    "4", "0", "0", "0", "-", "8", "0", "0", "0", "-", "0", "0", "0", "0",
    "0", "0", "0", "0", "0", "0", "0", "d">>

\* Location value tuples: a publication and a document of another publication
ValPub ==
    [book_number |-> None, chapter_number |-> None, document_id |-> None,
     track |-> None, issue_tag_number |-> 0, key_symbol |-> Some("nwt"),
     meps_language |-> 0, type |-> 1]

ValDoc ==
    [book_number |-> None, chapter_number |-> None,
     document_id |-> Some(1102021), track |-> None,
     issue_tag_number |-> 20171100, key_symbol |-> Some("w"),
     meps_language |-> 0, type |-> 0]

\* Location tables: the same two places under different row-ids and titles,
\* or only one of them
LocTables ==
    {<<Location(1, ValPub, Some("A")), Location(2, ValDoc, Some("A"))>>,
     <<Location(2, ValDoc, Some("B")), Location(1, ValPub, Some("B"))>>,
     <<Location(3, ValPub, Some("B"))>>,
     <<Location(1, ValDoc, Some("A"))>>}

\* the Location table of the k-th input where it is not varied
LocFor(k) ==
    CASE k = 1 -> <<Location(1, ValPub, Some("A")), Location(2, ValDoc, Some("A"))>>
      [] k = 2 -> <<Location(2, ValDoc, Some("B")), Location(1, ValPub, Some("B"))>>
      [] OTHER -> <<Location(3, ValPub, Some("C"))>>

FirstId(locs) == locs[1].location_id

LastId(locs) == locs[Len(locs)].location_id

Injective(s) == \A i, j \in DOMAIN s : s[i] = s[j] => i = j

SeqsUpTo(S, n) == UNION {[1..k -> S] : k \in 0..n}

\* -- Bookmarks: slot sequences on one publication
SlotPool == {0, 1, 9}

SlotSeqs ==
    {s \in SeqsUpTo(SlotPool, MaxBookmarks) : Injective(s)}
    \cup {[i \in 1..9 |-> i - 1], [i \in 1..10 |-> i - 1]}

BkDb(locs, slots) ==
    [EmptyDatabase EXCEPT
        !.locations = locs,
        !.bookmarks = [i \in DOMAIN slots |->
            Bookmark(i, LastId(locs), FirstId(locs), slots[i], "foo")]]

BkFamily == {BkDb(locs, slots) : locs \in LocTables, slots \in SlotSeqs}

\* -- UserMarks and BlockRanges
GuidSeqs ==
    {<<>>, <<GuidA>>, <<GuidAUpper>>, <<GuidA, GuidB>>, <<GuidB, GuidA>>,
     <<GuidA, GuidAUpper>>}

TokenRanges ==
    {<<None, None>>}
    \cup {<<Some(ab[1]), Some(ab[2])>> :
            ab \in {x \in (0..MaxToken) \X (1..MaxToken) : x[1] < x[2]}}

\* the BlockRanges every UserMark of the input gets: none, one, or two of
\* which the first covers tokens 0..1
RangeOpts ==
    {<<>>} \cup {<<r>> : r \in TokenRanges}
    \cup {<<<<Some(0), Some(1)>>, r>> : r \in TokenRanges}

UmDb(k, guids, opt) ==
    [EmptyDatabase EXCEPT
        !.locations = LocFor(k),
        !.user_marks = [i \in DOMAIN guids |->
            UserMark(i, LastId(LocFor(k)), guids[i], k)],
        !.block_ranges =
            [j \in 1..(Len(guids) * Len(opt)) |->
                LET um == ((j - 1) \div Len(opt)) + 1
                    r == opt[((j - 1) % Len(opt)) + 1]
                IN  BlockRange(j, r[1], r[2], um)]]

UmFamily(k) == {UmDb(k, guids, opt) : guids \in GuidSeqs, opt \in RangeOpts}

\* -- Notes
Times == {<<h, o>> : h \in 1..MaxTime, o \in 0..1}

\* the k-th input of the Note family has the UserMark with GuidB under the
\* row-id UmB(k)
UmB(k) == IF k = 1 THEN 1 ELSE 2

NtUserMarks(k) ==
    IF k = 1 THEN <<UserMark(1, FirstId(LocFor(k)), GuidB, k)>>
    ELSE <<UserMark(1, FirstId(LocFor(k)), GuidA, k),
           UserMark(2, FirstId(LocFor(k)), GuidB, k)>>

NtDb(k, notes) ==
    [EmptyDatabase EXCEPT
        !.locations = LocFor(k), !.user_marks = NtUserMarks(k),
        !.notes = notes]

NoteRows(k) ==
    {Note(k, guid, IF on_mark THEN Some(UmB(k)) ELSE None,
          IF on_mark THEN None ELSE Some(LastId(LocFor(k))),
          IF new THEN Some("t") ELSE None,
          IF new THEN Some("new") ELSE Some("old"), time) :
        guid \in {GuidA, GuidAUpper, GuidB}, time \in Times,
        new \in BOOLEAN, on_mark \in BOOLEAN}

NtFamily(k) == {NtDb(k, <<>>)} \cup {NtDb(k, <<n>>) : n \in NoteRows(k)}

\* -- Tags and TagMaps
TgNotes(k) ==
    IF k = 2
    THEN <<Note(1, GuidB, None, None, None, Some("b"), <<1, 0>>),
           Note(2, GuidAUpper, None, None, None, Some("a"), <<1, 0>>)>>
    ELSE <<Note(1, GuidA, None, None, None, Some("a"), <<1, 0>>)>>

\* the row-id of the Note with the GUID value of GuidA in the k-th input
NoteA(k) == IF k = 2 THEN 2 ELSE 1

Favorite == <<0, "Favorite">>

TagX == <<1, "x">>

TagSeqs == {<<Favorite>>, <<TagX, Favorite>>, <<Favorite, TagX>>}

Targets == {"location", "note", "playlist"}

\* a TagMap of the k-th input on the Tag with row-id 1
TgMap(k, i, target) ==
    TagMap(i,
           IF target = "playlist" THEN Some(7) ELSE None,
           IF target = "location" THEN Some(FirstId(LocFor(k))) ELSE None,
           IF target = "note" THEN Some(NoteA(k)) ELSE None,
           1, i - 1)

TgDb(k, tags, targets) ==
    [EmptyDatabase EXCEPT
        !.locations = LocFor(k), !.notes = TgNotes(k),
        !.tags = [i \in DOMAIN tags |-> Tag(i, tags[i][1], tags[i][2])],
        !.tag_maps = [i \in DOMAIN targets |-> TgMap(k, i, targets[i])]]

TgFamily(k) ==
    {[EmptyDatabase EXCEPT !.locations = LocFor(k), !.notes = TgNotes(k)]}
    \cup {TgDb(k, tags, targets) :
            tags \in TagSeqs, targets \in SeqsUpTo(Targets, 2)}

\* -- three inputs: one Database of each kind per position, and one that
\* carries an InputField
IfDb(k) ==
    [EmptyDatabase EXCEPT
        !.locations = LocFor(k),
        !.input_fields = <<InputField(FirstId(LocFor(k)), "t", "v")>>]

MixedDb(k) ==
    [EmptyDatabase EXCEPT
        !.schema_sql = <<"CREATE TABLE Location">>,
        !.last_modified = IF k = 1 THEN "2020-01-01T00:00:00Z"
                          ELSE "2021-01-01T00:00:00Z",
        !.locations = LocFor(k),
        !.bookmarks = <<Bookmark(1, LastId(LocFor(k)), FirstId(LocFor(k)), 0, "foo")>>,
        !.user_marks = NtUserMarks(k),
        !.notes = <<Note(1, GuidA, Some(UmB(k)), Some(FirstId(LocFor(k))),
                         None, Some("old"), <<k, 0>>)>>,
        !.block_ranges = <<BlockRange(1, Some(0), Some(1), UmB(k))>>,
        !.tags = <<Tag(1, 0, "Favorite")>>,
        !.tag_maps = <<TagMap(1, None, None, Some(1), 1, 0),
                       TagMap(2, None, Some(LastId(LocFor(k))), None, 1, 1)>>]

TripleFamily(k) ==
    {EmptyDatabase, IfDb(k), MixedDb(k),
     BkDb(LocFor(k), <<0, 1>>),
     UmDb(k, <<GuidA, GuidB>>, <<<<Some(0), Some(1)>>>>)}

Families ==
    {<<a, b>> : a \in BkFamily, b \in BkFamily}
    \cup {<<a, b>> : a \in UmFamily(1), b \in UmFamily(2)}
    \cup {<<a, b>> : a \in NtFamily(1), b \in NtFamily(2)}
    \cup {<<a, b>> : a \in TgFamily(1), b \in TgFamily(2)}
    \cup {<<a, b, c>> : a \in TripleFamily(1), b \in TripleFamily(2),
                        c \in TripleFamily(3)}

----------------------------------------------------------------------------
(* merge_databases as a state machine: one action per step of the pass *)

NoLocals == [max_id |-> 0]

NoClean == [database |-> EmptyDatabase, first |-> 0, second |-> 0, once |-> EmptyDatabase]

\* merge_databases after lines 14-15: the first input is the result
Init ==
    /\ inputs \in Families
    /\ originals = Tail(inputs)
    /\ m = MergeStart(Head(inputs))
    /\ pc = "next"
    /\ loc = NoLocals
    /\ cl = NoClean

After(st, then) == IF st.err = "none" THEN then ELSE "failed"

\* line 16-18: the next input, and Merge::new on it
NewMerge ==
    /\ pc = "next" /\ originals # <<>>
    /\ m' = MergeNew(Head(originals), m.dst, m.messages)
    /\ originals' = Tail(originals)
    /\ pc' = "bookmarks"
    /\ UNCHANGED <<inputs, loc, cl>>

Step(at, st, then) ==
    /\ pc = at
    /\ m' = st
    /\ pc' = After(st, then)
    /\ UNCHANGED <<originals, inputs, loc, cl>>

MergeBookmarks == Step("bookmarks", merge_bookmarks(m), "user_marks")

MergeUserMarks == Step("user_marks", merge_user_marks(m), "notes")

MergeNotes == Step("notes", merge_notes(m), "block_ranges")

MergeBlockRanges == Step("block_ranges", merge_block_ranges(m), "tags")

MergeTags == Step("tags", merge_tags(m), "tag_maps")

MergeTagMaps == Step("tag_maps", merge_tag_maps(m), "input_field")

MergeInputField == Step("input_field", merge_input_field(m), "next")

\* line 28: Ok((result, messages))
Return ==
    /\ pc = "next" /\ originals = <<>>
    /\ pc' = "done"
    /\ UNCHANGED <<originals, inputs, m, loc, cl>>

Next ==
    \/ NewMerge
    \/ MergeBookmarks
    \/ MergeUserMarks
    \/ MergeNotes
    \/ MergeBlockRanges
    \/ MergeTags
    \/ MergeTagMaps
    \/ MergeInputField
    \/ Return

Spec == Init /\ [][Next]_vars

----------------------------------------------------------------------------
(* Predicates on a Database *)

LocIds(db) == {l.location_id : l \in Range(db.locations)}

UmIds(db) == {u.user_mark_id : u \in Range(db.user_marks)}

NoteIds(db) == {n.note_id : n \in Range(db.notes)}

TagIds(db) == {x.tag_id : x \in Range(db.tags)}

\* every foreign key of db references an existing row
ValidForeignKeys(db) ==
    /\ \A b \in Range(db.bookmarks) :
            /\ b.location_id \in LocIds(db)
            /\ b.publication_location_id \in LocIds(db)
    /\ \A u \in Range(db.user_marks) : u.location_id \in LocIds(db)
    /\ \A n \in Range(db.notes) :
            /\ IsSome(n.user_mark_id) => n.user_mark_id[1] \in UmIds(db)
            /\ IsSome(n.location_id) => n.location_id[1] \in LocIds(db)
    /\ \A b \in Range(db.block_ranges) : b.user_mark_id \in UmIds(db)
    /\ \A x \in Range(db.tag_maps) :
            /\ x.tag_id \in TagIds(db)
            /\ IsSome(x.location_id) => x.location_id[1] \in LocIds(db)
            /\ IsSome(x.note_id) => x.note_id[1] \in NoteIds(db)

InputsValidForeignKeys == \A i \in DOMAIN inputs : ValidForeignKeys(inputs[i])

Merged == pc = "done" /\ Len(inputs) >= 2

\* C1: after merge_databases has succeeded on two or more inputs whose foreign
\* keys are all valid, every foreign key of the merged model references an
\* existing row.
C1_ForeignKeysValid ==
    (Merged /\ InputsValidForeignKeys) => ValidForeignKeys(m.dst)

\* C1 happens: a merge of three inputs with valid foreign keys has ended, it
\* appended Bookmarks, BlockRanges and TagMaps, and a source Location was
\* translated to a destination Location with another row-id.
C1_Witness ==
    /\ Merged /\ InputsValidForeignKeys /\ Len(inputs) = 3
    /\ Len(m.dst.bookmarks) > Len(inputs[1].bookmarks)
    /\ Len(m.dst.block_ranges) > Len(inputs[1].block_ranges)
    /\ Len(m.dst.tag_maps) > Len(inputs[1].tag_maps)
    /\ \E id \in DOMAIN m.location.location_translate :
            m.location.location_translate[id][1] # id

----------------------------------------------------------------------------
(* BlockRanges *)

AtMostOneRangePerMark(db) ==
    \A i, j \in DOMAIN db.block_ranges :
        db.block_ranges[i].user_mark_id = db.block_ranges[j].user_mark_id
            => i = j

NoOverlapWithinMark(db) ==
    \A i, j \in DOMAIN db.block_ranges :
        (i # j /\ db.block_ranges[i].user_mark_id
                    = db.block_ranges[j].user_mark_id)
            => ~block_ranges_overlap(db.block_ranges[i], db.block_ranges[j])

\* C2: after merge_databases over inputs with at most one BlockRange per
\* UserMark, no UserMark of the merged model has two BlockRanges that satisfy
\* the overlap predicate, also when the same UserMark GUID is present with its
\* BlockRange in the destination and in the source.
C2_NoOverlapAfterMerge ==
    (Merged /\ \A i \in DOMAIN inputs : AtMostOneRangePerMark(inputs[i]))
        => NoOverlapWithinMark(m.dst)

----------------------------------------------------------------------------
(* Notes *)

SameGuid(a, b) ==
    /\ parse_guid(a).ok /\ parse_guid(b).ok
    /\ parse_guid(a).value = parse_guid(b).value

Instant(note) == parse_from_rfc3339(note.last_modified).instant

\* the NoteUpdate messages pushed by the step from `before` to `after` that
\* are equal to msg
Pushed(before, after, msg) ==
    {k \in DOMAIN after : k > Len(before) /\ after[k] = msg}

\* C3: when a source Note has the GUID of a destination Note, a strictly later
\* last_modified and another (title, content, last_modified), merge_notes
\* appends exactly one NoteUpdate whose before is the destination's triple as
\* it was before the pass and whose after is the source's triple.
C3_NoteUpdateOnSupersede ==
    [][(pc = "notes" /\ pc' = "block_ranges") =>
        \A i \in DOMAIN m.src.notes, j \in DOMAIN m.dst.notes :
            (/\ SameGuid(m.src.notes[i].guid, m.dst.notes[j].guid)
             /\ Instant(m.dst.notes[j]) < Instant(m.src.notes[i])
             /\ NoteText(m.src.notes[i]) # NoteText(m.dst.notes[j]))
            => Cardinality(Pushed(m.messages, m'.messages,
                    NoteUpdate(NoteText(m.dst.notes[j]),
                               NoteText(m.src.notes[i])))) = 1]_vars

GuidsUnique(guids) ==
    \A i, j \in DOMAIN guids : SameGuid(guids[i], guids[j]) => i = j

NoteGuids(db) == [i \in DOMAIN db.notes |-> db.notes[i].guid]

UserMarkGuids(db) == [i \in DOMAIN db.user_marks |-> db.user_marks[i].user_mark_guid]

\* C4: if the same Note GUID appears in both of two merged inputs, the merged
\* model holds exactly one Note with that GUID, with the (title, content,
\* last_modified) of the input whose last_modified is the later instant, and
\* of the first input when the instants are equal.
C4_NoteLastWriterWins ==
    (/\ pc = "done" /\ Len(inputs) = 2
     /\ \A k \in DOMAIN inputs : GuidsUnique(NoteGuids(inputs[k])))
    => \A a \in Range(inputs[1].notes), b \in Range(inputs[2].notes) :
        SameGuid(a.guid, b.guid) =>
            LET hits == {i \in DOMAIN m.dst.notes :
                            SameGuid(m.dst.notes[i].guid, a.guid)}
            IN  /\ Cardinality(hits) = 1
                /\ \A i \in hits :
                    NoteText(m.dst.notes[i]) =
                        IF Instant(a) < Instant(b)
                        THEN NoteText(b) ELSE NoteText(a)

\* C4 happens: both inputs held the Note, the second with a later instant and
\* another text, and the merge has ended.
C4_Witness ==
    /\ pc = "done" /\ Len(inputs) = 2
    /\ \E a \in Range(inputs[1].notes), b \in Range(inputs[2].notes) :
        /\ SameGuid(a.guid, b.guid) /\ a.guid # b.guid
        /\ Instant(a) < Instant(b)
        /\ NoteText(a) # NoteText(b)
        /\ \E n \in Range(m.dst.notes) : NoteText(n) = NoteText(b)

----------------------------------------------------------------------------
(* Bookmarks *)

SlotsUnique(db) ==
    \A i, j \in DOMAIN db.bookmarks :
        (/\ db.bookmarks[i].publication_location_id
                = db.bookmarks[j].publication_location_id
         /\ db.bookmarks[i].slot = db.bookmarks[j].slot) => i = j

SlotsInRange(db) == \A b \in Range(db.bookmarks) : b.slot \in 0..9

\* C5: after merge_databases over inputs whose Bookmark slots are in 0..9 and
\* whose (publication_location_id, slot) pairs are unique, no two Bookmarks of
\* the merged model share publication_location_id and slot, and every slot is
\* in 0..9.
C5_BookmarkSlotsUnique ==
    (/\ Merged
     /\ \A k \in DOMAIN inputs : SlotsUnique(inputs[k]) /\ SlotsInRange(inputs[k]))
    => SlotsUnique(m.dst) /\ SlotsInRange(m.dst)

\* C5 happens: both Bookmarks of the second input were appended to a
\* destination that held Bookmarks, one of them under another slot than it had
\* in its input.
C5_Witness ==
    /\ Merged
    /\ \A k \in DOMAIN inputs : SlotsUnique(inputs[k]) /\ SlotsInRange(inputs[k])
    /\ Len(inputs[1].bookmarks) > 0 /\ Len(inputs[2].bookmarks) = 2
    /\ Len(m.dst.bookmarks) = Len(inputs[1].bookmarks) + 2
    /\ \E i \in DOMAIN m.dst.bookmarks :
        /\ i > Len(inputs[1].bookmarks)
        /\ m.dst.bookmarks[i].slot
            # inputs[2].bookmarks[i - Len(inputs[1].bookmarks)].slot

----------------------------------------------------------------------------
(* Locations *)

ValuesUnique(db) ==
    \A i, j \in DOMAIN db.locations :
        LocationValue(db.locations[i]) = LocationValue(db.locations[j]) => i = j

\* C9: after merge_databases over inputs whose Location value-identity is
\* unique, no two Locations of the merged model share the value-identity.
C9_LocationValuesUnique ==
    (Merged /\ \A k \in DOMAIN inputs : ValuesUnique(inputs[k]))
        => ValuesUnique(m.dst)

\* C9 happens: the merge has ended, one source Location was unified with a
\* destination Location of another row-id and another was appended.
C9_Witness ==
    /\ Merged /\ \A k \in DOMAIN inputs : ValuesUnique(inputs[k])
    /\ Len(m.dst.locations) > Len(inputs[1].locations)
    /\ \E id \in DOMAIN m.location.location_translate :
        /\ m.location.location_translate[id][1] # id
        /\ m.location.location_translate[id][1] \in LocIds(inputs[1])

----------------------------------------------------------------------------
(* GUIDs *)

\* C10: after merge_databases over inputs in which UserMark GUIDs and Note
\* GUIDs are unique (no two rows of an input have GUIDs that parse to the same
\* 128-bit value), no two UserMarks of the merged model have GUIDs that parse
\* to the same 128-bit value, and likewise no two Notes.
C10_GuidsUnique ==
    (/\ Merged
     /\ \A k \in DOMAIN inputs :
            /\ GuidsUnique(UserMarkGuids(inputs[k]))
            /\ GuidsUnique(NoteGuids(inputs[k])))
    => GuidsUnique(UserMarkGuids(m.dst)) /\ GuidsUnique(NoteGuids(m.dst))

\* C10 happens: a source UserMark matched a destination UserMark whose GUID is
\* spelled differently, another source UserMark was appended, and the merge
\* has ended.
C10_Witness ==
    /\ Merged
    /\ \A k \in DOMAIN inputs :
            /\ GuidsUnique(UserMarkGuids(inputs[k]))
            /\ GuidsUnique(NoteGuids(inputs[k]))
    /\ Len(m.dst.user_marks) > Len(inputs[1].user_marks)
    /\ \E a \in Range(inputs[1].user_marks), b \in Range(inputs[2].user_marks) :
        /\ a.user_mark_guid # b.user_mark_guid
        /\ SameGuid(a.user_mark_guid, b.user_mark_guid)

----------------------------------------------------------------------------
(* merge_bookmarks row by row: Merge::new, then the loop of merge_bookmarks  *)
(* one source Bookmark at a time, as the test merge_slots drives it          *)

\* the destination has the publication under row-id 1, the source under 2
UnitDstLocs == <<Location(1, ValPub, Some("A")), Location(2, ValDoc, Some("A"))>>

UnitSrcLocs == <<Location(2, ValPub, Some("B")), Location(1, ValDoc, Some("B"))>>

\* destination slots on the publication: 0..a-1, and the lists of the test
UnitDstSlots ==
    {[i \in 1..a |-> i - 1] : a \in 0..10}
    \cup {<<8>>, <<0, 3>>, <<3, 0>>, <<0, 1, 2, 8, 9>>, <<0, 2, 4, 6>>}

\* a source Bookmark: <<slot, on the publication (TRUE) or on the other one>>
UnitSrcRows == {<<s, TRUE>> : s \in 0..9} \cup {<<0, FALSE>>}

UnitDst(slots, other) ==
    [EmptyDatabase EXCEPT
        !.locations = UnitDstLocs,
        !.bookmarks =
            (IF other THEN <<Bookmark(20, 2, 2, 0, "other")>> ELSE <<>>)
            \o [i \in DOMAIN slots |-> Bookmark(i, 2, 1, slots[i], "foo")]]

UnitSrc(rows) ==
    [EmptyDatabase EXCEPT
        !.locations = UnitSrcLocs,
        !.bookmarks = [i \in DOMAIN rows |->
            Bookmark(i, 1, IF rows[i][2] THEN 2 ELSE 1, rows[i][1], "foo")]]

\* after Merge::new(&mut src, &mut dst, &mut messages)
InitBk ==
    /\ \E slots \in UnitDstSlots, other \in BOOLEAN,
          rows \in SeqsUpTo(UnitSrcRows, MaxBookmarks) :
            inputs = <<UnitDst(slots, other), UnitSrc(rows)>>
    /\ originals = <<>>
    /\ m = MergeNew(inputs[2], inputs[1], <<>>)
    /\ pc = "bk_begin"
    /\ loc = NoLocals
    /\ cl = NoClean

\* lines 143-152: the early return, or max_id
BkBegin ==
    /\ pc = "bk_begin"
    /\ pc' = IF m.src.bookmarks = <<>> THEN "bk_done" ELSE "bk_loop"
    /\ loc' = [max_id |-> BookmarkMaxId(m)]
    /\ UNCHANGED <<originals, inputs, m, cl>>

\* lines 153-202 for the next Bookmark drained from src.bookmarks
BkRow ==
    /\ pc = "bk_loop" /\ m.src.bookmarks # <<>>
    /\ m' = [BookmarkRow(m, loc.max_id, Head(m.src.bookmarks))
                EXCEPT !.src.bookmarks = Tail(m.src.bookmarks)]
    /\ loc' = [max_id |-> loc.max_id + 1]
    /\ pc' = After(m', "bk_loop")
    /\ UNCHANGED <<originals, inputs, cl>>

\* line 203
BkEnd ==
    /\ pc = "bk_loop" /\ m.src.bookmarks = <<>>
    /\ pc' = "bk_done"
    /\ UNCHANGED <<originals, inputs, m, loc, cl>>

NextBk == BkBegin \/ BkRow \/ BkEnd

SpecBk == InitBk /\ [][NextBk]_vars

\* the row-id of the destination Location that has the value-identity of the
\* Location the source Bookmark b names as its publication
TranslatedPublication(b) ==
    LET src == CHOOSE l \in Range(inputs[2].locations) :
                    l.location_id = b.publication_location_id
        dst == CHOOSE l \in Range(m'.dst.locations) :
                    LocationValue(l) = LocationValue(src)
    IN  dst.location_id

\* the slots of the destination Bookmarks of a publication, before the row
UsedSlots(publication) ==
    {x.slot : x \in {y \in Range(m.dst.bookmarks) :
                        y.publication_location_id = publication}}

Lowest(S) == CHOOSE x \in S : \A y \in S : x <= y

BkRowTaken == pc = "bk_loop" /\ m.src.bookmarks # <<>> /\ pc' = "bk_loop"

\* C6: each source Bookmark (its slot in 0..9), processed in source order
\* against the destination as it stands, is appended with its own slot when
\* no destination Bookmark of the same translated publication uses that slot,
\* and otherwise with the lowest slot of 0..9 that none of them uses.
C6_SlotKeptOrLowestFree ==
    [][BkRowTaken =>
        LET b == Head(m.src.bookmarks)
            used == UsedSlots(TranslatedPublication(b))
            free == (0..9) \ used
            n == Len(m.dst.bookmarks)
        IN  (b.slot \notin used \/ free # {}) =>
                /\ Len(m'.dst.bookmarks) = n + 1
                /\ m'.dst.bookmarks[n + 1].publication_location_id
                        = TranslatedPublication(b)
                /\ m'.dst.bookmarks[n + 1].slot =
                        IF b.slot \notin used THEN b.slot ELSE Lowest(free)]_vars

\* C6 happens: the second source Bookmark found its slot taken by the first,
\* which had been pushed in this pass, and got the lowest free slot, a slot
\* that the other publication uses.
C6_Witness ==
    /\ pc = "bk_done" /\ Len(inputs[2].bookmarks) = 2
    /\ Len(m.dst.bookmarks) = Len(inputs[1].bookmarks) + 2
    /\ inputs[1].bookmarks # <<>> /\ inputs[1].bookmarks[1].bookmark_id = 20
    /\ LET n == Len(m.dst.bookmarks)
       IN  /\ m.dst.bookmarks[n - 1].slot = inputs[2].bookmarks[1].slot
           /\ m.dst.bookmarks[n - 1].slot = 2
           /\ m.dst.bookmarks[n].slot = 3
           /\ inputs[2].bookmarks[2].slot = 1
           /\ m.dst.bookmarks[n].publication_location_id = 1

\* C7: a source Bookmark is discarded if and only if its slot is taken and all
\* of the slots 0..9 of its publication are occupied in the destination; a
\* discarded Bookmark appends exactly one BookmarkOverflow and a kept one no
\* message; the Bookmarks that were in the destination stay as they were; and
\* with distinct slots of 0..9 on one publication the destination ends with
\* min(10, |dst| + |src|) Bookmarks and max(0, |dst| + |src| - 10) messages.
C7_DiscardOnlyWhenFull ==
    [][/\ BkRowTaken =>
            LET b == Head(m.src.bookmarks)
                used == UsedSlots(TranslatedPublication(b))
                n == Len(m.dst.bookmarks)
                discarded == Len(m'.dst.bookmarks) = n
            IN  /\ discarded <=> (b.slot \in used /\ (0..9) \subseteq used)
                /\ Len(m'.dst.bookmarks) \in {n, n + 1}
                /\ SubSeq(m'.dst.bookmarks, 1, n) = m.dst.bookmarks
                /\ IF discarded
                   THEN /\ Len(m'.messages) = Len(m.messages) + 1
                        /\ SubSeq(m'.messages, 1, Len(m.messages)) = m.messages
                        /\ m'.messages[Len(m'.messages)] =
                                BookmarkOverflow(LocationValue(UnitSrcLocs[1]), b)
                   ELSE m'.messages = m.messages
       /\ (pc' = "bk_done" /\ SlotsUnique(inputs[1]) /\ SlotsUnique(inputs[2])
           /\ (\A x \in Range(inputs[1].bookmarks) : x.publication_location_id = 1)
           /\ (\A y \in Range(inputs[2].bookmarks) : y.publication_location_id = 2))
          => LET total == Len(inputs[1].bookmarks) + Len(inputs[2].bookmarks)
             IN  /\ Len(m'.dst.bookmarks) = IF total < 10 THEN total ELSE 10
                 /\ Len(m'.messages) = IF total > 10 THEN total - 10 ELSE 0]_vars

\* C7 happens: the destination held nine Bookmarks of the publication, the
\* first source Bookmark took the last slot and the second was discarded with
\* one BookmarkOverflow.
C7_Witness ==
    /\ pc = "bk_done"
    /\ Len(inputs[1].bookmarks) = 9 /\ Len(inputs[2].bookmarks) = 2
    /\ Len(m.dst.bookmarks) = 10
    /\ Len(m.messages) = 1 /\ m.messages[1].kind = "BookmarkOverflow"
    /\ m.messages[1].key_symbol = Some("nwt")

----------------------------------------------------------------------------
(* clean, called on a loaded Database and then once more on what it left *)

\* the most Locations and the most BlockRanges of a Database under clean
MaxCleanRows == 3

CleanLocations ==
    {s \in SeqsUpTo({Location(k, [ValDoc EXCEPT !.document_id = Some(k)],
                               Some("A")) : k \in 1..MaxCleanRows},
                    MaxCleanRows) : Injective(s)}

\* UserMark i is on Location i
CleanUserMarks ==
    {[i \in 1..k |-> UserMark(i, i, IF i = 1 THEN GuidA ELSE GuidB, 1)] :
        k \in 0..2}

\* BlockRange i names UserMark us[i]; 3 is not the row-id of a UserMark
CleanBlockRanges ==
    {[i \in DOMAIN us |-> BlockRange(i, Some(i), None, us[i])] :
        us \in SeqsUpTo(1..3, MaxCleanRows)}

\* the rows that may reference Location 3, at most one of them in a Database
CleanReferences == {"bookmark", "note", "tag_map", "input_field"}

CleanDatabases ==
    {[EmptyDatabase EXCEPT
        !.locations = ls,
        !.user_marks = us,
        !.block_ranges = rs,
        !.bookmarks = IF "bookmark" \in refs
                      THEN <<Bookmark(1, 3, 3, 0, "foo")>> ELSE <<>>,
        !.notes = IF "note" \in refs
                  THEN <<Note(1, GuidA, None, Some(3), None, Some("old"), <<1, 0>>)>>
                  ELSE <<>>,
        !.tags = <<Tag(1, 0, "Favorite")>>,
        !.tag_maps = IF "tag_map" \in refs
                     THEN <<TagMap(1, None, Some(3), None, 1, 0)>> ELSE <<>>,
        !.input_fields = IF "input_field" \in refs
                         THEN <<InputField(3, "t", "v")>> ELSE <<>>] :
        ls \in CleanLocations, us \in CleanUserMarks, rs \in CleanBlockRanges,
        refs \in {{}} \cup {{r} : r \in CleanReferences}}

\* a Database as load leaves it
InitClean ==
    /\ inputs \in {<<d>> : d \in CleanDatabases}
    /\ originals = <<>>
    /\ m = MergeStart(EmptyDatabase)
    /\ pc = "loaded"
    /\ loc = NoLocals
    /\ cl = [NoClean EXCEPT !.database = inputs[1]]

\* clean(&mut backup.database), as run calls it
CleanOnce ==
    /\ pc = "loaded"
    /\ LET c == clean(cl.database)
       IN  cl' = [database |-> c.database, first |-> c.rows_removed,
                  second |-> 0, once |-> c.database]
    /\ pc' = "cleaned"
    /\ UNCHANGED <<originals, inputs, m, loc>>

\* clean called again on the Database the first call left
CleanAgain ==
    /\ pc = "cleaned"
    /\ LET c == clean(cl.database)
       IN  cl' = [cl EXCEPT !.database = c.database, !.second = c.rows_removed]
    /\ pc' = "cleaned_again"
    /\ UNCHANGED <<originals, inputs, m, loc>>

NextClean == CleanOnce \/ CleanAgain

SpecClean == InitClean /\ [][NextClean]_vars

\* C8: a second clean leaves the Database equal to the result of the first,
\* the same rows in the same sequence order in every table, and returns 0.
C8_CleanIdempotent ==
    pc = "cleaned_again" => (cl.database = cl.once /\ cl.second = 0)

----------------------------------------------------------------------------
(* merge_databases over one, two and three inputs with rows of every entity *)

\* a Tag with the name of TagX and another type
TagY == <<0, "x">>

TagSeqsTyped == TagSeqs \cup {<<TagX, TagY>>}

\* what a TagMap is on, and the row-id of its Tag
TagMapTargets ==
    {<<"location", 1>>, <<"note", 1>>, <<"note", 2>>, <<"playlist", 1>>}

\* the TagMaps of the k-th input: positions count from 0 within each Tag
TgMapsTyped(k, targets) ==
    [i \in DOMAIN targets |->
        TagMap(i,
               IF targets[i][1] = "playlist" THEN Some(7) ELSE None,
               IF targets[i][1] = "location" THEN Some(FirstId(LocFor(k)))
               ELSE None,
               IF targets[i][1] = "note" THEN Some(NoteA(k)) ELSE None,
               targets[i][2],
               Cardinality({j \in 1..(i - 1) : targets[j][2] = targets[i][2]}))]

TgDbTyped(k, tags, targets) ==
    [EmptyDatabase EXCEPT
        !.locations = LocFor(k), !.notes = TgNotes(k),
        !.tags = [i \in DOMAIN tags |-> Tag(i, tags[i][1], tags[i][2])],
        !.tag_maps = TgMapsTyped(k, targets)]

TgFamilyTyped(k) ==
    UNION {{TgDbTyped(k, tags, targets) :
                targets \in {s \in SeqsUpTo(TagMapTargets, 2) :
                                \A i \in DOMAIN s : s[i][2] <= Len(tags)}} :
            tags \in TagSeqsTyped}

\* a source whose first Bookmark is on the publication of the destination and
\* whose second is on another one
BkTwoPublications(k) ==
    [EmptyDatabase EXCEPT
        !.locations = LocFor(k),
        !.bookmarks = <<Bookmark(1, LastId(LocFor(k)), LastId(LocFor(k)), 0, "foo"),
                        Bookmark(2, LastId(LocFor(k)), FirstId(LocFor(k)), 0, "foo")>>]

UmFamilySmall(k) ==
    {UmDb(k, guids, <<<<Some(0), Some(1)>>>>) : guids \in GuidSeqs}

RowFamilies ==
    {<<a>> : a \in TripleFamily(1) \cup TgFamily(1)}
    \cup {<<a, b>> : a \in BkFamily, b \in BkFamily}
    \cup {<<a, b>> : a \in BkFamily, b \in {BkTwoPublications(2)}}
    \cup {<<a, b>> : a \in UmFamilySmall(1), b \in UmFamilySmall(2)}
    \cup {<<a, b>> : a \in NtFamily(1), b \in NtFamily(2)}
    \cup {<<a, b>> : a \in TgFamilyTyped(1), b \in TgFamilyTyped(2)}
    \cup {<<a, b, c>> : a \in TripleFamily(1), b \in TripleFamily(2),
                        c \in TripleFamily(3)}

InitRows ==
    /\ inputs \in RowFamilies
    /\ originals = Tail(inputs)
    /\ m = MergeStart(Head(inputs))
    /\ pc = "next"
    /\ loc = NoLocals
    /\ cl = NoClean

SpecRows == InitRows /\ [][Next]_vars

\* the input that the pass in progress merges into the destination
Source == inputs[Len(inputs) - Len(originals)]

----------------------------------------------------------------------------
(* Tags *)

TagKey(t) == <<t.type, t.name>>

TagsUnique(db) ==
    \A i, j \in DOMAIN db.tags : TagKey(db.tags[i]) = TagKey(db.tags[j]) => i = j

InputsTagsUnique == \A k \in DOMAIN inputs : TagsUnique(inputs[k])

\* C11: after merge_databases over inputs in which Tag (type, name) is unique,
\* no two Tags of the merged model share (type, name), and merge_tags
\* translates every source Tag id to the row-id of the destination Tag with
\* the same (type, name).
C11_TagsUnifiedByTypeAndName ==
    [][InputsTagsUnique =>
        /\ (pc = "tags" /\ pc' = "tag_maps") =>
                /\ TagsUnique(m'.dst)
                /\ \A t \in Range(m.src.tags) :
                    /\ t.tag_id \in DOMAIN m'.tag_translate
                    /\ \E d \in Range(m'.dst.tags) :
                        /\ TagKey(d) = TagKey(t)
                        /\ d.tag_id = m'.tag_translate[t.tag_id]
        /\ pc' = "done" => TagsUnique(m'.dst)]_vars

\* C11 happens: the merge has ended; a source Tag was unified with the
\* destination Tag of its (type, name) under another row-id, and a source Tag
\* with the same name and another type was appended.
C11_Witness ==
    /\ Merged /\ InputsTagsUnique /\ Len(inputs) = 2
    /\ Len(m.dst.tags) = Len(inputs[1].tags) + 1
    /\ \E a \in Range(inputs[1].tags), b, c \in Range(inputs[2].tags) :
        /\ TagKey(a) = TagKey(b) /\ a.tag_id # b.tag_id
        /\ m.tag_translate[b.tag_id] = a.tag_id
        /\ c.name = a.name /\ c.type # a.type
        /\ m.tag_translate[c.tag_id] = Len(m.dst.tags)

----------------------------------------------------------------------------
(* TagMap positions *)

TagMapsOf(db, tag_id) == {i \in DOMAIN db.tag_maps : db.tag_maps[i].tag_id = tag_id}

\* the positions of the TagMaps of every Tag are 0, 1, ..., k-1, each once
PositionsContiguous(db) ==
    \A t \in DOMAIN db.tag_maps :
        LET group == TagMapsOf(db, db.tag_maps[t].tag_id)
        IN  /\ {db.tag_maps[i].position : i \in group}
                = 0..(Cardinality(group) - 1)
            /\ \A i, j \in group :
                db.tag_maps[i].position = db.tag_maps[j].position => i = j

\* C12: after merge_databases over two or more inputs whose TagMap positions
\* are contiguous from 0 within each Tag, the positions of the TagMaps of every
\* tag-id of the merged model are exactly 0, 1, ..., k-1, each used once.
C12_TagMapPositionsContiguous ==
    (Merged /\ \A k \in DOMAIN inputs : PositionsContiguous(inputs[k]))
        => PositionsContiguous(m.dst)

\* C12 happens: the destination held two TagMaps of a Tag, the second input
\* brought TagMaps of the Tag with the same row-id that were appended, one of
\* them to a position it did not have in its input.
C12_Witness ==
    /\ Merged /\ Len(inputs) = 2
    /\ \A k \in DOMAIN inputs : PositionsContiguous(inputs[k])
    /\ Cardinality(TagMapsOf(inputs[1], 1)) = 2
    /\ Cardinality(TagMapsOf(inputs[2], 1)) >= 1
    /\ m.tag_translate[1] = 1
    /\ Cardinality(TagMapsOf(m.dst, 1)) >= 3
    /\ Len(m.dst.tag_maps) = Len(inputs[1].tag_maps) + Len(inputs[2].tag_maps)

----------------------------------------------------------------------------
(* Row-ids *)

\* the row-ids of each table that has them, in sequence order
RowIds(db) ==
    <<[i \in DOMAIN db.locations |-> db.locations[i].location_id],
      [i \in DOMAIN db.bookmarks |-> db.bookmarks[i].bookmark_id],
      [i \in DOMAIN db.user_marks |-> db.user_marks[i].user_mark_id],
      [i \in DOMAIN db.notes |-> db.notes[i].note_id],
      [i \in DOMAIN db.block_ranges |-> db.block_ranges[i].block_range_id],
      [i \in DOMAIN db.tags |-> db.tags[i].tag_id],
      [i \in DOMAIN db.tag_maps |-> db.tag_maps[i].tag_map_id]>>

RowIdsUnique(db) == \A e \in DOMAIN RowIds(db) : Injective(RowIds(db)[e])

\* every row-id of `old` is in `new`, and the others of `new` are greater than
\* all of `old`
RowIdsFresh(old, new) ==
    \A e \in DOMAIN old :
        /\ Range(old[e]) \subseteq Range(new[e])
        /\ Len(new[e]) >= Len(old[e])
        /\ \A x \in Range(new[e]) \ Range(old[e]) :
                \A y \in Range(old[e]) : x > y

\* C13: after merge_databases over inputs whose row-ids are unique within each
\* entity, the row-ids of the merged model are unique within each entity; every
\* step gives the rows it appends ids greater than every id the destination
\* table held, also when a Bookmark was discarded or a row was matched.
C13_RowIdsUnique ==
    [][(\A k \in DOMAIN inputs : RowIdsUnique(inputs[k])) =>
        /\ RowIdsFresh(RowIds(m.dst), RowIds(m'.dst))
        /\ RowIdsUnique(m'.dst)]_vars

\* C13 happens: the first source Bookmark was discarded, the second was
\* appended with a row-id that skips the one the discarded Bookmark consumed.
C13_Witness ==
    /\ Merged /\ Len(inputs) = 2
    /\ \A k \in DOMAIN inputs : RowIdsUnique(inputs[k])
    /\ Len(inputs[1].bookmarks) = 10 /\ Len(inputs[2].bookmarks) = 2
    /\ Len(m.messages) = 1
    /\ Len(m.dst.bookmarks) = 11
    /\ m.dst.bookmarks[11].bookmark_id = 12

----------------------------------------------------------------------------
(* One input *)

\* C14: merge_databases given exactly one model returns that model unchanged,
\* every table, the schema text and the last-modified stamp, and an empty
\* message list.
C14_SingleInputUnchanged ==
    (pc = "done" /\ Len(inputs) = 1)
        => (m.dst = inputs[1] /\ m.messages = <<>>)

\* C14 happens: merge_databases has returned on one input that has rows in
\* its tables, a schema text and a last-modified stamp.
C14_Witness ==
    /\ pc = "done" /\ Len(inputs) = 1
    /\ inputs[1].schema_sql # <<>> /\ inputs[1].last_modified # ""
    /\ inputs[1].bookmarks # <<>> /\ inputs[1].notes # <<>>
    /\ inputs[1].tag_maps # <<>>
    /\ m.dst.tag_maps = inputs[1].tag_maps

----------------------------------------------------------------------------
(* Location unification *)

\* the source Location with row-id s
SourceLocation(s) ==
    CHOOSE l \in Range(Source.locations) : l.location_id = s

\* the destination Location, as the step found it, with the value-identity of
\* the source Location s, if there is one
Unified(s) ==
    /\ s \in LocIds(Source)
    /\ \E d \in Range(m.dst.locations) :
            LocationValue(d) = LocationValue(SourceLocation(s))

UnifiedId(s) ==
    (CHOOSE d \in Range(m.dst.locations) :
        LocationValue(d) = LocationValue(SourceLocation(s))).location_id

\* the destination TagMap with row-id id after the step
TagMapWithId(id) == CHOOSE t \in Range(m'.dst.tag_maps) : t.tag_map_id = id

\* C15: when a source Location has the value-identity of a destination
\* Location but another title or row-id, interning adds no Location for it,
\* the destination Location keeps its title and row-id, and the source rows
\* that reference the source Location are appended with the destination
\* Location's id.
C15_LocationUnified ==
    [][((\A k \in DOMAIN inputs : ValuesUnique(inputs[k]) /\ RowIdsUnique(inputs[k]))
        /\ pc \in {"bookmarks", "user_marks", "notes", "tag_maps"}
        /\ pc' # pc) =>
        /\ \A s \in LocIds(Source) : Unified(s) =>
            /\ \E d \in Range(m'.dst.locations) :
                    /\ d \in Range(m.dst.locations)
                    /\ d.location_id = UnifiedId(s)
            /\ Cardinality({i \in DOMAIN m'.dst.locations :
                    LocationValue(m'.dst.locations[i])
                        = LocationValue(SourceLocation(s))}) = 1
            /\ s \in DOMAIN m'.location.location_translate
                    => m'.location.location_translate[s][1] = UnifiedId(s)
        /\ LET n == Len(m.dst.bookmarks)
               src == m.src.bookmarks
           IN  (pc = "bookmarks" /\ Len(m'.dst.bookmarks) = n + Len(src)) =>
               \A i \in DOMAIN src :
                /\ Unified(src[i].location_id) =>
                    m'.dst.bookmarks[n + i].location_id
                        = UnifiedId(src[i].location_id)
                /\ Unified(src[i].publication_location_id) =>
                    m'.dst.bookmarks[n + i].publication_location_id
                        = UnifiedId(src[i].publication_location_id)
        /\ LET n == Len(m.dst.user_marks)
               src == m.src.user_marks
           IN  (pc = "user_marks" /\ Len(m'.dst.user_marks) = n + Len(src)) =>
               \A i \in DOMAIN src : Unified(src[i].location_id) =>
                    m'.dst.user_marks[n + i].location_id
                        = UnifiedId(src[i].location_id)
        /\ LET n == Len(m.dst.notes)
               src == m.src.notes
           IN  (pc = "notes" /\ Len(m'.dst.notes) = n + Len(src)) =>
               \A i \in DOMAIN src :
                (IsSome(src[i].location_id) /\ Unified(src[i].location_id[1])) =>
                    m'.dst.notes[n + i].location_id
                        = Some(UnifiedId(src[i].location_id[1]))
        /\ LET n == Len(m.dst.tag_maps)
               src == m.src.tag_maps
               max_id == MaxOr0({t.tag_map_id : t \in Range(m.dst.tag_maps)})
           IN  (pc = "tag_maps" /\ Len(m'.dst.tag_maps) = n + Len(src)) =>
               \A i \in DOMAIN src :
                (IsSome(src[i].location_id) /\ Unified(src[i].location_id[1])) =>
                    TagMapWithId(max_id + i).location_id
                        = Some(UnifiedId(src[i].location_id[1]))]_vars

\* C15 happens: the source Location has the value-identity of a destination
\* Location under another row-id and title; the destination has the Locations
\* it had, and the source Bookmarks, all on that Location, were appended with
\* the destination Location's id.
C15_Witness ==
    /\ Merged /\ Len(inputs) = 2
    /\ m.dst.locations = inputs[1].locations
    /\ inputs[2].bookmarks # <<>>
    /\ Len(m.dst.bookmarks) = Len(inputs[1].bookmarks) + Len(inputs[2].bookmarks)
    /\ \E a \in Range(inputs[1].locations), b \in Range(inputs[2].locations) :
        /\ LocationValue(a) = LocationValue(b)
        /\ a.title # b.title /\ a.location_id # b.location_id
        /\ \A x \in Range(inputs[2].bookmarks) :
                x.location_id = b.location_id
        /\ \A i \in DOMAIN m.dst.bookmarks : i > Len(inputs[1].bookmarks) =>
                /\ m.dst.bookmarks[i].location_id = a.location_id
                /\ m.dst.bookmarks[i].publication_location_id = a.location_id

----------------------------------------------------------------------------
(* parse_guid on its own *)

\* characters put in the place of one character of a GUID string
HexChars == {"0", "9", "a", "f", "A", "F", "7"}

OtherChars == {"g", "G", "+", "-", " "}

ReplaceAt(s, i, c) == [s EXCEPT ![i] = c]

GuidInputs ==
    {GuidA, GuidAUpper, GuidB}
    \cup {ReplaceAt(GuidB, i, c) : i \in 1..36, c \in HexChars \cup OtherChars}
    \cup {ReplaceAt(GuidA, i, c) : i \in {1, 9, 10, 36}, c \in OtherChars}
    \cup {SubSeq(GuidA, 1, n) : n \in {0, 1, 32, 35}}
    \cup {GuidA \o <<c>> : c \in {"0", "-"}}
    \cup {<<"-">> \o SubSeq(GuidA, 1, 35), <<"+">> \o SubSeq(GuidA, 1, 35)}

InitGuid ==
    /\ loc \in {[input |-> s, result |-> [ok |-> FALSE, value |-> <<>>]] :
                    s \in GuidInputs}
    /\ pc = "parse_guid"
    /\ inputs = <<>>
    /\ originals = <<>>
    /\ m = MergeStart(EmptyDatabase)
    /\ cl = NoClean

\* parse_guid(&input)
ParseGuid ==
    /\ pc = "parse_guid"
    /\ loc' = [loc EXCEPT !.result = parse_guid(loc.input)]
    /\ pc' = "parsed"
    /\ UNCHANGED <<originals, inputs, m, cl>>

NextGuid == ParseGuid

SpecGuid == InitGuid /\ [][NextGuid]_vars

\* the hexadecimal digits by value, lower and upper case
LowerDigits ==
    <<"0", "1", "2", "3", "4", "5", "6", "7", "8", "9",
      "a", "b", "c", "d", "e", "f">>

UpperDigits ==
    <<"0", "1", "2", "3", "4", "5", "6", "7", "8", "9",
      "A", "B", "C", "D", "E", "F">>

IsHexDigit(c) == c \in Range(LowerDigits) \cup Range(UpperDigits)

DigitValue(c) ==
    (CHOOSE i \in 1..16 : LowerDigits[i] = c \/ UpperDigits[i] = c) - 1

DashPositions == {9, 14, 19, 24}

\* 36 characters, dashes at (0-based) 8, 13, 18, 23, hex digits elsewhere
Canonical(s) ==
    /\ Len(s) = 36
    /\ \A i \in DashPositions : s[i] = "-"
    /\ \A i \in (1..36) \ DashPositions : IsHexDigit(s[i])

\* the digits of the five groups, concatenated in order, by value
GroupDigits(s) ==
    LET hex == SelectSeq(s, LAMBDA c : c # "-")
    IN  [i \in DOMAIN hex |-> DigitValue(hex[i])]

\* 0xc88af989_da73_4745_bccc_8476f9950a3c
GuidAValue ==
    <<12, 8, 8, 10, 15, 9, 8, 9, 13, 10, 7, 3, 4, 7, 4, 5,
      11, 12, 12, 12, 8, 4, 7, 6, 15, 9, 9, 5, 0, 10, 3, 12>>

\* C16: for every canonical 36-character GUID string parse_guid returns the
\* 128-bit integer whose hexadecimal digits, high to low, are the five groups
\* concatenated in order; "c88af989-da73-4745-bccc-8476f9950a3c" parses to
\* 0xc88af989da734745bccc8476f9950a3c.
C16_ParseGuidValue ==
    (pc = "parsed" /\ Canonical(loc.input)) =>
        /\ loc.result.ok
        /\ loc.result.value = GroupDigits(loc.input)
        /\ loc.input = GuidA => loc.result.value = GuidAValue

\* C16 happens: parse_guid has returned on the GUID of test_parse_guid spelled
\* in upper case.
C16_Witness ==
    /\ pc = "parsed" /\ loc.input = GuidAUpper /\ Canonical(loc.input)
    /\ loc.result.ok /\ loc.result.value = GuidAValue

\* C17: parse_guid returns an error for every input that is not canonical:
\* a length other than 36, a character other than '-' at position 8, 13, 18
\* or 23, or a character that is not a hexadecimal digit anywhere else.
C17_ParseGuidRejects ==
    (pc = "parsed" /\ ~Canonical(loc.input)) => ~loc.result.ok

----------------------------------------------------------------------------
(* insert_location called any number of times within one pass *)

\* a value-identity that no destination Location of InternDsts has
ValNew == [ValDoc EXCEPT !.document_id = Some(2)]

InternDsts == {<<>>, <<Location(1, ValPub, Some("A"))>>, LocFor(1)}

\* source Locations with row-ids 1..n; two of them may have the same value
InternSrcs ==
    {[i \in DOMAIN vs |-> Location(i, vs[i], Some("B"))] :
        vs \in SeqsUpTo({ValPub, ValDoc, ValNew}, 3) \ {<<>>}}

\* after Merge::new(&mut src, &mut dst, &mut messages)
InitIntern ==
    /\ inputs \in {<<[EmptyDatabase EXCEPT !.locations = d],
                     [EmptyDatabase EXCEPT !.locations = s]>> :
                        d \in InternDsts, s \in InternSrcs}
    /\ originals = <<>>
    /\ m = MergeNew(inputs[2], inputs[1], <<>>)
    /\ pc = "intern"
    /\ loc = [location_id |-> 0, returned |-> 0]
    /\ cl = NoClean

\* self.location.insert_location(&mut self.dst.locations, location_id) for a
\* row-id that a source row may carry
Intern ==
    /\ pc = "intern"
    /\ \E location_id \in LocIds(inputs[2]) :
        LET r == insert_location(m.location, m.dst.locations, location_id)
        IN  /\ m' = IF r.ok THEN Interned(m, r) ELSE Panic(m)
            /\ loc' = [location_id |-> location_id, returned |-> r.id]
            /\ pc' = After(m', "intern")
    /\ UNCHANGED <<originals, inputs, cl>>

NextIntern == Intern

SpecIntern == InitIntern /\ [][NextIntern]_vars

\* C18: within one pass, two source location ids whose Locations have equal
\* value-identity are mapped to the same destination location id, also when
\* the value was new to the destination and the first of them was pushed.
C18_EqualValuesSameDestination ==
    \A s1, s2 \in DOMAIN m.location.location_translate :
        m.location.location_translate[s1][2] = m.location.location_translate[s2][2]
            => m.location.location_translate[s1][1]
                = m.location.location_translate[s2][1]

----------------------------------------------------------------------------
(* The cleaner and the Locations *)

\* the row-ids of Locations that a Bookmark, Note, UserMark or TagMap names
ReferencedLocations(db) ==
    {b.location_id : b \in Range(db.bookmarks)}
    \cup {b.publication_location_id : b \in Range(db.bookmarks)}
    \cup {u.location_id : u \in Range(db.user_marks)}
    \cup UNION {Range(n.location_id) : n \in Range(db.notes)}
    \cup UNION {Range(t.location_id) : t \in Range(db.tag_maps)}

\* C19: clean drops exactly the Locations whose row-id no Bookmark
\* (location_id or publication_location_id), Note, UserMark or TagMap
\* references, and the Locations that remain are in the relative order they
\* had before the call.
C19_UnreferencedLocationsDropped ==
    pc = "cleaned" =>
        cl.database.locations =
            SelectSeq(inputs[1].locations,
                      LAMBDA l : l.location_id \in ReferencedLocations(inputs[1]))

\* every foreign key of db references an existing row, the Location of an
\* InputField included
AllForeignKeysValid(db) ==
    /\ ValidForeignKeys(db)
    /\ \A f \in Range(db.input_fields) : f.location_id \in LocIds(db)

\* C20: if every foreign key of a model is valid before clean, every foreign
\* key is valid after clean: no Location that a remaining Bookmark, UserMark,
\* Note, TagMap or InputField references is removed, and no UserMark, Note or
\* Tag is removed.
C20_CleanKeepsForeignKeysValid ==
    (pc = "cleaned" /\ AllForeignKeysValid(inputs[1])) =>
        /\ AllForeignKeysValid(cl.database)
        /\ cl.database.user_marks = inputs[1].user_marks
        /\ cl.database.notes = inputs[1].notes
        /\ cl.database.tags = inputs[1].tags

----------------------------------------------------------------------------
(* The cleaner and the BlockRanges *)

\* the positions in rows of the BlockRanges of UserMark u
RangePositions(rows, u) == {i \in DOMAIN rows : rows[i].user_mark_id = u}

\* the position of the last BlockRange of UserMark u in rows
LastPosition(rows, u) ==
    CHOOSE i \in RangePositions(rows, u) :
        \A j \in RangePositions(rows, u) : j <= i

\* C21: after clean every remaining BlockRange references an existing
\* UserMark, there is at most one BlockRange per user_mark_id, and it is the
\* one that came last in the BlockRange sequence among those of that
\* user_mark_id; the value clean returns is the number of BlockRanges removed
\* plus the number of Locations removed.
C21_BlockRangesCleaned ==
    pc = "cleaned" =>
        LET before == inputs[1]
            after == cl.database
        IN  /\ \A r \in Range(after.block_ranges) :
                    r.user_mark_id \in UmIds(after)
            /\ \A i, j \in DOMAIN after.block_ranges :
                    after.block_ranges[i].user_mark_id
                        = after.block_ranges[j].user_mark_id => i = j
            /\ \A u \in UmIds(before) :
                    RangePositions(before.block_ranges, u) # {} =>
                        before.block_ranges[LastPosition(before.block_ranges, u)]
                            \in Range(after.block_ranges)
            /\ cl.first = (Len(before.block_ranges) - Len(after.block_ranges))
                          + (Len(before.locations) - Len(after.locations))

\* clean dropped an earlier BlockRange of a UserMark, a BlockRange of no
\* UserMark and a Location
C21_Witness ==
    /\ pc = "cleaned"
    /\ \E i, j \in DOMAIN inputs[1].block_ranges :
            /\ i < j
            /\ inputs[1].block_ranges[i].user_mark_id
                = inputs[1].block_ranges[j].user_mark_id
            /\ inputs[1].block_ranges[i].user_mark_id \in UmIds(inputs[1])
            /\ inputs[1].block_ranges[i] \notin Range(cl.database.block_ranges)
    /\ \E r \in Range(inputs[1].block_ranges) :
            r.user_mark_id \notin UmIds(inputs[1])
    /\ Len(cl.database.locations) < Len(inputs[1].locations)
    /\ cl.first = 3

----------------------------------------------------------------------------
(* The messages of merge_notes *)

\* the messages that the step pushed
NewMessages(before, after) ==
    {after[k] : k \in {x \in DOMAIN after : x > Len(before)}}

\* C22: merge_notes emits a NoteUpdate only when it overwrote a destination
\* Note and one of title, content, last_modified changed; when a source Note
\* with the GUID of a destination Note is not newer, the destination Note is
\* left unchanged and no NoteUpdate is emitted.
C22_NoteUpdateOnlyOnOverwrite ==
    [][(/\ pc = "notes" /\ pc' = "block_ranges"
        /\ GuidsUnique([i \in DOMAIN m.src.notes |-> m.src.notes[i].guid])
        /\ GuidsUnique([j \in DOMAIN m.dst.notes |-> m.dst.notes[j].guid]))
       =>
       /\ (\E msg \in NewMessages(m.messages, m'.messages) :
                msg.kind = "NoteUpdate")
            => \E j \in DOMAIN m.dst.notes :
                    NoteText(m'.dst.notes[j]) # NoteText(m.dst.notes[j])
       /\ \A i \in DOMAIN m.src.notes, j \in DOMAIN m.dst.notes :
            (/\ SameGuid(m.src.notes[i].guid, m.dst.notes[j].guid)
             /\ ~(Instant(m.dst.notes[j]) < Instant(m.src.notes[i])))
            => m'.dst.notes[j] = m.dst.notes[j]]_vars

----------------------------------------------------------------------------
(* merge_databases over two inputs whose TagMaps name any of a playlist item,
   a Location and a Note *)

\* the destination: the Note with GuidA under row-id 1, the Tag Favorite, and
\* no TagMap, one on Location 1 or one on Note 1
TmDsts ==
    {[EmptyDatabase EXCEPT
        !.locations = LocFor(1), !.notes = TgNotes(1),
        !.tags = <<Tag(1, 0, "Favorite")>>,
        !.tag_maps = maps] :
        maps \in {<<>>, <<TagMap(1, None, Some(1), None, 1, 0)>>,
                  <<TagMap(1, None, None, Some(1), 1, 0)>>}}

\* the Notes of the source: GuidB, and the GUID value of GuidA in both
\* spellings
TmNotes ==
    <<Note(1, GuidB, None, None, None, Some("b"), <<1, 0>>),
      Note(2, GuidAUpper, None, None, None, Some("a"), <<1, 0>>),
      Note(3, GuidA, None, None, None, Some("a"), <<1, 0>>)>>

\* what a source TagMap names: each of the three columns set or not
TmTargets ==
    {<<pl, l, n>> : pl \in {None, Some(7)}, l \in {None, Some(1), Some(2)},
                    n \in {None, Some(2), Some(3)}}

TmSrcs ==
    {[EmptyDatabase EXCEPT
        !.locations = LocFor(2), !.notes = TmNotes,
        !.tags = <<Tag(1, 0, "Favorite")>>,
        !.tag_maps = [i \in DOMAIN ts |->
                        TagMap(i, ts[i][1], ts[i][2], ts[i][3], 1, i - 1)]] :
        ts \in SeqsUpTo(TmTargets, 2)}

InitTagMaps ==
    /\ inputs \in {<<d, s>> : d \in TmDsts, s \in TmSrcs}
    /\ originals = Tail(inputs)
    /\ m = MergeStart(Head(inputs))
    /\ pc = "next"
    /\ loc = NoLocals
    /\ cl = NoClean

SpecTagMaps == InitTagMaps /\ [][Next]_vars

\* how many of playlist_item_id, location_id and note_id a TagMap has set
TargetsSet(t) ==
    Len(t.playlist_item_id) + Len(t.location_id) + Len(t.note_id)

\* C23: merge_tag_maps aborts the merge for every source TagMap that does not
\* have exactly one of playlist_item_id, location_id, note_id set, when none
\* is set and when more than one is set.
C23_TagMapCheckConstraint ==
    [][(pc = "tag_maps"
        /\ \E t \in Range(m.src.tag_maps) : TargetsSet(t) # 1)
       => pc' = "failed"]_vars

\* no two TagMaps of db have the same tag_id and the same location_id, and no
\* two the same tag_id and the same note_id
TagMapTargetsUnique(db) ==
    \A i, j \in DOMAIN db.tag_maps :
        (/\ i # j
         /\ db.tag_maps[i].tag_id = db.tag_maps[j].tag_id)
        => /\ ~(/\ IsSome(db.tag_maps[i].location_id)
                /\ db.tag_maps[i].location_id = db.tag_maps[j].location_id)
           /\ ~(/\ IsSome(db.tag_maps[i].note_id)
                /\ db.tag_maps[i].note_id = db.tag_maps[j].note_id)

\* C26: after merge_databases over inputs in which (tag_id, location_id) and
\* (tag_id, note_id) are unique per input, no two TagMaps of the merged model
\* have the same tag_id and location_id, and no two the same tag_id and
\* note_id.  The inputs are taken with exactly one of the three columns set in
\* every TagMap.
C26_TagMapTargetsUnique ==
    (/\ Merged
     /\ \A k \in DOMAIN inputs :
            /\ TagMapTargetsUnique(inputs[k])
            /\ \A t \in Range(inputs[k].tag_maps) : TargetsSet(t) = 1)
        => TagMapTargetsUnique(m.dst)

----------------------------------------------------------------------------
(* merge_databases over two inputs whose source may repeat a UserMark row-id *)

UdDsts ==
    {[EmptyDatabase EXCEPT !.locations = LocFor(1), !.user_marks = us] :
        us \in {<<>>, <<UserMark(1, 1, GuidA, 1)>>,
                <<UserMark(1, 1, GuidA, 1), UserMark(2, 2, GuidB, 1)>>}}

\* up to three source UserMarks with row-ids in 1..2
UdSrcs ==
    {[EmptyDatabase EXCEPT !.locations = LocFor(2), !.user_marks = us] :
        us \in SeqsUpTo({UserMark(id, LastId(LocFor(2)), guid, 2) :
                            id \in 1..2, guid \in {GuidA, GuidAUpper, GuidB}},
                        3)}

InitUserMarks ==
    /\ inputs \in {<<d, s>> : d \in UdDsts, s \in UdSrcs}
    /\ originals = Tail(inputs)
    /\ m = MergeStart(Head(inputs))
    /\ pc = "next"
    /\ loc = NoLocals
    /\ cl = NoClean

SpecUserMarks == InitUserMarks /\ [][Next]_vars

\* C24: merge_user_marks aborts the merge whenever a UserMark row-id occurs
\* twice in the source, whether the rows' GUIDs match a destination UserMark
\* or are new; when it succeeds every source UserMark row-id is mapped to one
\* destination row-id by user_mark_translate.
C24_DuplicateSourceIdAborts ==
    [][pc = "user_marks" =>
        /\ (\E i, j \in DOMAIN m.src.user_marks :
                /\ i # j
                /\ m.src.user_marks[i].user_mark_id
                    = m.src.user_marks[j].user_mark_id)
            => pc' = "failed"
        /\ pc' = "notes" =>
            \A u \in Range(m.src.user_marks) :
                /\ u.user_mark_id \in DOMAIN m'.user_mark_translate
                /\ m'.user_mark_translate[u.user_mark_id] \in UmIds(m'.dst)]_vars

----------------------------------------------------------------------------
(* merge_databases over three inputs of which any may carry InputFields *)

\* the rows of MixedDb(k) and an InputField
MixedIfDb(k) ==
    [MixedDb(k) EXCEPT
        !.input_fields = <<InputField(FirstId(LocFor(k)), "t", "v")>>]

IfFamily(k) ==
    {EmptyDatabase, IfDb(k), MixedDb(k), MixedIfDb(k),
     BkDb(LocFor(k), <<0, 1>>)}

InitInputField ==
    /\ inputs \in {<<a, b>> : a \in IfFamily(1), b \in IfFamily(2)}
                  \cup {<<a, b, c>> : a \in IfFamily(1), b \in IfFamily(2),
                                      c \in IfFamily(3)}
    /\ originals = Tail(inputs)
    /\ m = MergeStart(Head(inputs))
    /\ pc = "next"
    /\ loc = NoLocals
    /\ cl = NoClean

SpecInputField == InitInputField /\ [][Next]_vars

\* C25: for inputs that are valid otherwise, merge_databases fails if and only
\* if an input other than the first has an InputField.  The failure is that of
\* the last step of the pass: the steps before it have been applied to the
\* destination, which the failing step leaves as it is; nothing is processed
\* after the failure; the InputFields of the first input cause no failure and
\* are in the result unchanged.
C25_InputFieldFailsLast ==
    [][/\ pc # "failed"
       /\ (pc' = "failed" /\ InputsValidForeignKeys) =>
            /\ pc = "input_field"
            /\ Len(inputs) - Len(originals) >= 2
            /\ Source.input_fields # <<>>
            /\ m'.err = "NotImplemented"
            /\ m'.dst = m.dst
       /\ (pc = "input_field" /\ Source.input_fields # <<>>) => pc' = "failed"
       /\ pc' = "done" =>
            /\ \A k \in 2..Len(inputs) : inputs[k].input_fields = <<>>
            /\ m'.dst.input_fields = inputs[1].input_fields]_vars

\* the second of three inputs carried an InputField: the merge failed after
\* the pass had appended a Bookmark and a TagMap to the destination, the third
\* input was not processed, and the first input had an InputField of its own
C25_Witness ==
    /\ pc = "failed" /\ m.err = "NotImplemented"
    /\ Len(inputs) = 3 /\ Len(originals) = 1
    /\ inputs[1].input_fields # <<>>
    /\ inputs[2].input_fields # <<>>
    /\ Len(m.dst.bookmarks) > Len(inputs[1].bookmarks)
    /\ Len(m.dst.tag_maps) > Len(inputs[1].tag_maps)

----------------------------------------------------------------------------
(* What merge_notes leaves alone in a Note matched by GUID *)

\* the columns of a Note that an update in place does not write
NoteFrame(note) ==
    <<note.note_id, note.guid, note.user_mark_id, note.location_id,
      note.block_type, note.block_identifier>>

\* C27: when a source Note has the GUID of a destination Note, merge_notes
\* leaves the destination Note's note_id, user_mark_id, location_id,
\* block_type and block_identifier as they were, whether or not it overwrites
\* title, content and last_modified; it appends no Note for it and translates
\* the source note id to the row-id of the destination Note.
C27_MatchedNoteFrame ==
    [][(pc = "notes" /\ pc' = "block_ranges") =>
        \A i \in DOMAIN m.src.notes, j \in DOMAIN m.dst.notes :
            SameGuid(m.src.notes[i].guid, m.dst.notes[j].guid) =>
                /\ NoteFrame(m'.dst.notes[j]) = NoteFrame(m.dst.notes[j])
                /\ \A k \in DOMAIN m'.dst.notes :
                        SameGuid(m'.dst.notes[k].guid, m.src.notes[i].guid)
                            => k <= Len(m.dst.notes)
                /\ m.src.notes[i].note_id \in DOMAIN m'.note_translate
                /\ m'.note_translate[m.src.notes[i].note_id]
                        = m.dst.notes[j].note_id]_vars

\* merge_notes has overwritten the text of the destination Note with that of a
\* newer source Note that is on another UserMark or Location and has another
\* row-id; the destination Note kept its own, and no Note was appended
C27_Witness ==
    /\ pc = "block_ranges" /\ Len(inputs) = 2
    /\ Len(m.dst.notes) = 1 /\ Len(inputs[1].notes) = 1
    /\ \E b \in Range(inputs[2].notes) :
        LET a == inputs[1].notes[1]
            n == m.dst.notes[1]
        IN  /\ SameGuid(a.guid, b.guid)
            /\ Instant(a) < Instant(b)
            /\ NoteText(a) # NoteText(b)
            /\ a.note_id # b.note_id
            /\ a.user_mark_id # b.user_mark_id
            /\ a.location_id # b.location_id
            /\ NoteText(n) = NoteText(b)
            /\ NoteFrame(n) = NoteFrame(a)
            /\ m.note_translate[b.note_id] = a.note_id

----------------------------------------------------------------------------
(* block_ranges_overlap alone, on two BlockRanges in both orders *)

\* BlockRanges of one UserMark with every start_token and end_token: None or
\* a token in 0..MaxToken
OverlapRanges ==
    {BlockRange(1, s, e, 1) :
        s \in {None} \cup {Some(t) : t \in 0..MaxToken},
        e \in {None} \cup {Some(t) : t \in 0..MaxToken}}

InitOverlap ==
    /\ inputs = <<>>
    /\ originals = <<>>
    /\ m = MergeStart(EmptyDatabase)
    /\ pc = "overlap"
    /\ loc \in {[a |-> a, b |-> b, ab |-> FALSE, ba |-> FALSE] :
                    a \in OverlapRanges, b \in OverlapRanges}
    /\ cl = NoClean

\* block_ranges_overlap(a, b) and block_ranges_overlap(b, a)
Overlap ==
    /\ pc = "overlap"
    /\ loc' = [loc EXCEPT !.ab = block_ranges_overlap(loc.a, loc.b),
                          !.ba = block_ranges_overlap(loc.b, loc.a)]
    /\ pc' = "compared"
    /\ UNCHANGED <<originals, inputs, m, cl>>

SpecOverlap == InitOverlap /\ [][Overlap]_vars

\* C28 as stated: there are token ranges A and B for which
\* block_ranges_overlap(A, B) differs from block_ranges_overlap(B, A).
C28_OverlapAsymmetric ==
    pc = "compared" =>
        \E a, b \in OverlapRanges :
            block_ranges_overlap(a, b) # block_ranges_overlap(b, a)

\* C28, amended: block_ranges_overlap is symmetric in its two arguments: for
\* all token ranges A and B, block_ranges_overlap(A, B) is equal to
\* block_ranges_overlap(B, A).
C28_OverlapSymmetric ==
    pc = "compared" => loc.ab = loc.ba

\* two different ranges with all four tokens set overlap, in both orders
C28_Witness ==
    /\ pc = "compared"
    /\ loc.a # loc.b
    /\ IsSome(loc.a.start_token) /\ IsSome(loc.a.end_token)
    /\ IsSome(loc.b.start_token) /\ IsSome(loc.b.end_token)
    /\ loc.a.start_token[1] < loc.b.start_token[1]
    /\ loc.ab /\ loc.ba

============================================================================
